---- MODULE Spec2Model ----
(***************************************************************************)
(* netcdf4-wasm: the dataset handle (NetCDF4 extends Group), its metadata  *)
(* cache (dimensions / variables), the mock engine of createMockModule and *)
(* the interface of the wrapped engine, as a state machine.                *)
(*                                                                         *)
(* A handle is one NetCDF4 object.  Its async methods are cut at their     *)
(* await points: initialize() is the chain load -> mount -> open (-> the   *)
(* catch block), tracked by pc.  The other methods have no await before    *)
(* their engine call and are one step each.  The caller awaits every call  *)
(* before it makes the next one (Idle).                                    *)
(***************************************************************************)
EXTENDS Integers, Sequences, FiniteSets, TLC

\* ------------------------------------------------------------------ bounds
Handles == {1}
MaxSize == 1
MaxLen  == 2

\* ------------------------------------------------------- program constants
NC_NOERR     == 0
NC_NOWRITE   == 0
NC_WRITE     == 1
NC_CLOBBER   == 0
NC_NETCDF4   == 4096
NC_UNLIMITED == -1000

NC_BYTE      == 1
NC_CHAR      == 2
NC_SHORT     == 3
NC_INT       == 4
NC_FLOAT     == 5
NC_DOUBLE    == 6

DATA_TYPE_MAP ==
    [a \in {"f8", "f4", "i4", "i2", "i1", "S1",
            "double", "float", "int", "short", "byte", "char"} |->
        CASE a \in {"f8", "double"} -> NC_DOUBLE
          [] a \in {"f4", "float"}  -> NC_FLOAT
          [] a \in {"i4", "int"}    -> NC_INT
          [] a \in {"i2", "short"}  -> NC_SHORT
          [] a \in {"i1", "byte"}   -> NC_BYTE
          [] a \in {"S1", "char"}   -> NC_CHAR]

\* DATA_TYPE_MAP[datatype] on the object literal: an own key gives its number, a
\* key the literal inherits from Object.prototype gives that member (not a
\* number, not undefined), any other key gives undefined
inherited == -2000000
undefined == -3000000
InheritedKeys == {"constructor"}
ncTypeOf(datatype) ==
    IF datatype \in DOMAIN DATA_TYPE_MAP THEN DATA_TYPE_MAP[datatype]
    ELSE IF datatype \in InheritedKeys THEN inherited
    ELSE undefined

\* variant: the modes with a suffix are not recognized
validModes_Short == {"r", "w", "a"}

validModes == {"r", "w", "w-", "a", "r+"}

\* ------------------------------------------------------------ input spaces
Modes     == {"r", "w", "w-", "a", "r+", "invalid"}
Filenames == {"", " ", "a.nc", "b.nc", "unsupported.nc"}
Formats   == {"undefined", "NETCDF4", "NETCDF3_CLASSIC"}
\* what the caller passes to fromMemory as data; "none" = handle made from a path
DataKinds == {"Uint8Array", "null", "string"}

\* createDimension(name, size): size is a number or null
null      == -1000000
DimNames  == {"x", "t"}
Sizes     == {null, NC_UNLIMITED} \cup (-1..MaxSize)
\* createVariable(name, datatype, dimensions)
VarNames  == {"v", "w"}
\* variable.setncattr(name, value)
AttrNames  == {"units"}
AttrValues == {"K", "m"}
\* createGroup(name)
GroupNames == {"g"}
Datatypes == {"f8", "i4", "f2"}
DimLists  == {<<>>, <<"x">>, <<"x", "t">>}
\* every key of DATA_TYPE_MAP, a key it inherits, and two strings that are no key
AllDatatypes == {"f8", "f4", "i4", "i2", "i1", "S1",
                 "double", "float", "int", "short", "byte", "char",
                 "constructor", "f2", "i8"}
\* setValue(data): Float64Array contents, in tenths
DataInputs == {[i \in 1..n |-> 10 * i] : n \in 1..MaxLen}

\* String.prototype.trim() === '' and String.prototype.includes on the inputs
IsBlank(f) == f \in {"", " "}
PathIncludesUnsupported(p) == p = "unsupported.nc"
ModeIncludes(m, c) ==
    CASE c = "r"       -> m \in {"r", "r+"}
      [] c = "w"       -> m \in {"w", "w-"}
      [] c = "a"       -> m \in {"a", "invalid"}
      [] c = "x"       -> FALSE
      [] c = "invalid" -> m = "invalid"
      [] OTHER         -> FALSE

\* fromMemory: filename || `/tmp/netcdf_${Date.now()}_...nc`
virtualFilename(fn) == IF fn = "" THEN "/tmp/netcdf_0.nc" ELSE fn

\* the status a failing call of the wrapped engine returns, and the ids it hands out
EngineStatuses == {0, -33}
RealNcid(h) == 65536 * h

VARIABLES
    testEnv,        \* process.env.NODE_ENV === 'test'
    hasFS,          \* the loaded wasm module exposes module.FS
    filename, mode, options, memorySource,   \* constructor arguments, per handle
    module,         \* "null" | "real" | "mock"
    initialized, ncid, _isOpen, groupId,
    dimensions, variables,                   \* Group.dimensions / Group.variables
    groups,         \* Group.groups of the dataset: its child groups, by name
    _attributes,    \* Group._attributes of the dataset
    definedDims,    \* the dimensions the engine defined, with the dimid it returned
    mockFiles,      \* global.__netcdf4_mock_files
    FSfiles,        \* names present in the virtual filesystem
    pc,             \* position inside initialize()
    returned,       \* the caller holds the handle
    last,           \* the last public call on the handle and its outcome
    trace,          \* engine / filesystem calls made by that call, in order
    overlapping,    \* the calls made on the handle while another is in flight
    everClosed      \* close() has completed with an engine close on the handle

vars == <<testEnv, hasFS, filename, mode, options, memorySource, module,
          initialized, ncid, _isOpen, groupId, dimensions, variables, groups,
          _attributes, definedDims, mockFiles, FSfiles, pc, returned, last, trace,
          overlapping, everClosed>>

config == <<testEnv, hasFS, filename, mode, options, memorySource>>

\* ---------------------------------------------------- insertion-ordered maps
\* A JS object used as a map: a sequence of records with distinct names.
Names(s)     == {s[i].name : i \in 1..Len(s)}
Has(s, n)    == n \in Names(s)
Get(s, n)    == s[CHOOSE i \in 1..Len(s) : s[i].name = n]
\* obj[n] = r : replaces in place, or appends
Put(s, r)    == IF Has(s, r.name)
                THEN [i \in 1..Len(s) |-> IF s[i].name = r.name THEN r ELSE s[i]]
                ELSE Append(s, r)
\* Object.keys(obj).indexOf(n), zero-based, -1 when absent
IndexOf(s, n) == IF Has(s, n) THEN (CHOOSE i \in 1..Len(s) : s[i].name = n) - 1 ELSE -1

\* a public call, how it settled ("ok" or the error thrown), for getValue the
\* data returned, and the engine status the message of the error thrown carries
\* (`... (error: ${result})`), 0 when it carries none
Outcome(op, res, out) == [op |-> op, res |-> res, out |-> out, status |-> 0]
Thrown(op, res, out, status) == [Outcome(op, res, out) EXCEPT !.status = status]

EmptyMockFile == [attributes |-> <<>>, dimensions |-> <<>>, variables |-> <<>>]

\* ------------------------------------------------------------------- Init
\* the state after the constructors of the handles in H
InitOver(H) ==
    /\ testEnv \in BOOLEAN
    /\ hasFS \in BOOLEAN
    /\ mode \in [H -> Modes]
    /\ options \in [H -> [format : Formats]]
    /\ memorySource \in [H -> {"none"} \cup DataKinds]
    /\ \E fn \in [H -> Filenames] :
          filename = [h \in H |->
              IF memorySource[h] = "none" THEN fn[h] ELSE virtualFilename(fn[h])]
    /\ module = [h \in H |-> "null"]
    /\ initialized = [h \in H |-> FALSE]
    /\ ncid = [h \in H |-> -1]
    /\ _isOpen = [h \in H |-> FALSE]
    /\ groupId = [h \in H |-> -1]
    /\ dimensions = [h \in H |-> <<>>]
    /\ variables = [h \in H |-> <<>>]
    /\ groups = [h \in H |-> <<>>]
    /\ _attributes = [h \in H |-> <<>>]
    /\ definedDims = [h \in H |-> <<>>]
    /\ mockFiles = <<>>
    /\ FSfiles = {}
    /\ pc = [h \in H |-> "idle"]
    \* a handle made with `new NetCDF4(...)` is in the caller's hands; one being
    \* made by NetCDF4.Dataset(...) or NetCDF4.fromMemory(...) is not yet
    /\ returned \in [H -> BOOLEAN]
    /\ \A h \in H : memorySource[h] # "none" => ~returned[h]
    /\ last = [h \in H |-> Outcome("none", "none", <<>>)]
    /\ trace = [h \in H |-> <<>>]
    /\ overlapping = [h \in H |-> <<>>]
    /\ everClosed = [h \in H |-> FALSE]

InitCommon == InitOver(Handles)

Init == InitCommon

\* ------------------------------------------------------------- the engines
\* One engine-call outcome: the status, the id it returns, and the storage after it.
\* module "mock" is createMockModule (its closures read this.mode / this.filename);
\* module "real" is the wrapped library: any status, storage outside mockFiles.

\* a call, with the status it returned
Call(fn, args) == [fn |-> fn, args |-> args, result |-> 0]
Returned(call, status) == [call EXCEPT !.result = status]

nc_create(h, m, path, cmode) ==
    IF m = "mock"
    THEN IF PathIncludesUnsupported(path)
            \/ \E c \in {"x", "invalid"} : ModeIncludes(mode[h], c)
         THEN {[result |-> -1, id |-> -1, mockFiles |-> mockFiles, FSfiles |-> FSfiles]}
         ELSE {[result |-> NC_NOERR, id |-> 1,
                mockFiles |-> Put(mockFiles, [name |-> path] @@ EmptyMockFile),
                FSfiles |-> FSfiles]}
    ELSE {[result |-> s, id |-> IF s = NC_NOERR THEN RealNcid(h) ELSE -1,
           mockFiles |-> mockFiles,
           FSfiles |-> IF s = NC_NOERR THEN FSfiles \cup {path} ELSE FSfiles]
            : s \in EngineStatuses}

nc_open(h, m, path, modeValue) ==
    IF m = "mock"
    THEN IF PathIncludesUnsupported(path)
            \/ ~ \E c \in {"r", "w", "a"} : ModeIncludes(mode[h], c)
         THEN {[result |-> -1, id |-> -1, mockFiles |-> mockFiles, FSfiles |-> FSfiles]}
         ELSE {[result |-> NC_NOERR, id |-> 1,
                mockFiles |-> IF mode[h] = "r" /\ ~Has(mockFiles, path)
                              THEN Put(mockFiles, [name |-> path] @@ EmptyMockFile)
                              ELSE mockFiles,
                FSfiles |-> FSfiles]}
    ELSE {[result |-> s, id |-> IF s = NC_NOERR THEN RealNcid(h) ELSE -1,
           mockFiles |-> mockFiles, FSfiles |-> FSfiles]
            : s \in EngineStatuses}

nc_close(h, m, id) ==
    IF m = "mock" THEN {NC_NOERR} ELSE EngineStatuses

\* the file of handle h in the mock storage, when `this.filename && mockFiles[this.filename]`
HasMockFile(h, mf) == filename[h] # "" /\ Has(mf, filename[h])

\* variant: the storage holds one dataset, whatever the filename
MockFile_AnyFilename(h, mf) == mf[1]

MockFile(h, mf) == Get(mf, filename[h])

\* the dimensions the wrapped engine has defined under id: it numbers them from 0
DefinedUnder(h, id) == {i \in 1..Len(definedDims[h]) : definedDims[h][i].ncid = id}

nc_def_dim(h, m, id, name, len) ==
    IF m = "mock"
    THEN {[result |-> NC_NOERR, dimid |-> 1,
           mockFiles |->
              IF HasMockFile(h, mockFiles)
              THEN Put(mockFiles,
                       [MockFile(h, mockFiles) EXCEPT !.dimensions =
                           Put(@, [name |-> name, size |-> len,
                                   unlimited |-> len = NC_UNLIMITED])])
              ELSE mockFiles]}
    ELSE {[result |-> s,
           dimid |-> IF s = NC_NOERR THEN Cardinality(DefinedUnder(h, id)) ELSE -1,
           mockFiles |-> mockFiles] : s \in EngineStatuses}

nc_def_var(h, m, id, name, xtype, dimids) ==
    IF m = "mock"
    THEN {[result |-> NC_NOERR, varid |-> 1,
           mockFiles |->
              IF HasMockFile(h, mockFiles)
              THEN Put(mockFiles,
                       [MockFile(h, mockFiles) EXCEPT !.variables =
                           Put(@, [name |-> name, datatype |-> "undefined",
                                   dimensions |-> <<>>, data |-> <<>>,
                                   attributes |-> <<>>])])
              ELSE mockFiles]}
    ELSE {[result |-> s, varid |-> IF s = NC_NOERR THEN Len(variables[h]) ELSE -1,
           mockFiles |-> mockFiles] : s \in EngineStatuses}

nc_put_var_double(h, m, id, varid, data) ==
    IF m = "mock"
    THEN {[result |-> NC_NOERR,
           mockFiles |->
              IF HasMockFile(h, mockFiles)
                 /\ Len(MockFile(h, mockFiles).variables) > 0 /\ varid = 1
              THEN Put(mockFiles,
                       [MockFile(h, mockFiles) EXCEPT !.variables[1].data = data])
              ELSE mockFiles]}
    ELSE {[result |-> s, mockFiles |-> mockFiles] : s \in EngineStatuses}

\* the fallback test pattern data[i] = i * 0.1, in tenths
Pattern(size) == [i \in 1..size |-> i - 1]

nc_get_var_double(h, m, id, varid, size) ==
    IF m = "mock"
    THEN LET stored ==
                 IF HasMockFile(h, mockFiles)
                    /\ Len(MockFile(h, mockFiles).variables) > 0 /\ varid = 1
                 THEN MockFile(h, mockFiles).variables[1].data
                 ELSE <<>>
         IN {[result |-> NC_NOERR,
              data |-> IF size <= 0 THEN <<>>
                       ELSE IF Len(stored) > 0
                       THEN [i \in 1..size |-> IF i <= Len(stored) THEN stored[i] ELSE 0]
                       ELSE Pattern(size)]}
    ELSE {[result |-> s, data |-> IF s = NC_NOERR /\ size > 0
                                  THEN [i \in 1..size |-> 0] ELSE <<>>]
            : s \in EngineStatuses}

\* ------------------------------------------------------ loadMockDimensions
RECURSIVE PutAll(_, _)
PutAll(s, rs) == IF rs = <<>> THEN s ELSE PutAll(Put(s, Head(rs)), Tail(rs))

loadMockDimensions(h, mf, gid) ==
    IF testEnv /\ HasMockFile(h, mf)
    THEN LET f == MockFile(h, mf) IN
         [dimensions |->
             PutAll(dimensions[h],
                    [i \in 1..Len(f.dimensions) |->
                        [name |-> f.dimensions[i].name,
                         size |-> f.dimensions[i].size,
                         isUnlimited |-> f.dimensions[i].unlimited]]),
          variables |->
             PutAll(variables[h],
                    [i \in 1..Len(f.variables) |->
                        [name |-> f.variables[i].name,
                         datatype |-> IF f.variables[i].datatype = "undefined"
                                      THEN "f8" ELSE f.variables[i].datatype,
                         dimensions |-> f.variables[i].dimensions,
                         varid |-> 1,
                         ncid |-> gid,
                         attributes |-> f.variables[i].attributes]])]
    ELSE [dimensions |-> dimensions[h], variables |-> variables[h]]

\* ------------------------------------------------------------ NetCDF4.open
\* The outcomes of open() run against module m: what it throws or "ok", and the
\* fields and storage it leaves.
createMode(h) ==
    IF options[h].format = "NETCDF4" THEN NC_CLOBBER + NC_NETCDF4 ELSE NC_CLOBBER

Unchanged(h, res, calls) ==
    [res |-> res, status |-> 0, ncid |-> ncid[h], groupId |-> groupId[h], isOpen |-> _isOpen[h],
     mockFiles |-> mockFiles, FSfiles |-> FSfiles,
     dimensions |-> dimensions[h], variables |-> variables[h], calls |-> calls]

open(h, m) ==
    IF _isOpen[h] THEN {Unchanged(h, "ok", <<>>)}
    ELSE IF IsBlank(filename[h]) THEN {Unchanged(h, "NoFilename", <<>>)}
    ELSE IF mode[h] \notin validModes THEN {Unchanged(h, "UnsupportedMode", <<>>)}
    ELSE IF mode[h] \in {"w", "w-"}
    THEN {IF r.result # NC_NOERR
          THEN [Unchanged(h, "EngineError",
                          <<Returned(Call("nc_create", <<filename[h], createMode(h)>>),
                                     r.result)>>)
                   EXCEPT !.status = r.result,
                          !.mockFiles = r.mockFiles, !.FSfiles = r.FSfiles]
          ELSE [res |-> "ok", status |-> 0, ncid |-> r.id, groupId |-> r.id, isOpen |-> TRUE,
                mockFiles |-> r.mockFiles, FSfiles |-> r.FSfiles,
                dimensions |-> dimensions[h], variables |-> variables[h],
                calls |-> <<Call("nc_create", <<filename[h], createMode(h)>>)>>]
            : r \in nc_create(h, m, filename[h], createMode(h))}
    ELSE LET modeValue == IF mode[h] = "r" THEN NC_NOWRITE ELSE NC_WRITE IN
         {IF r.result # NC_NOERR
          THEN [Unchanged(h, "EngineError",
                          <<Returned(Call("nc_open", <<filename[h], modeValue>>),
                                     r.result)>>)
                   EXCEPT !.status = r.result,
                          !.mockFiles = r.mockFiles, !.FSfiles = r.FSfiles]
          ELSE LET ld == loadMockDimensions(h, r.mockFiles, r.id) IN
               [res |-> "ok", status |-> 0, ncid |-> r.id, groupId |-> r.id, isOpen |-> TRUE,
                mockFiles |-> r.mockFiles, FSfiles |-> r.FSfiles,
                dimensions |-> ld.dimensions, variables |-> ld.variables,
                calls |-> <<Call("nc_open", <<filename[h], modeValue>>)>>]
            : r \in nc_open(h, m, filename[h], modeValue)}

\* get file_format(): this.options.format || 'NETCDF4'
file_format(h) ==
    IF options[h].format = "undefined" THEN "NETCDF4" ELSE options[h].format

\* ------------------------------------------------------ NetCDF4.initialize
\* no call is in flight: the caller has awaited every call it made
Settled(h) == \A k \in 1..Len(overlapping[h]) : overlapping[h][k].at = "settled"

Idle == \A h \in DOMAIN pc : pc[h] = "idle" /\ Settled(h)

\* the call has settled: resolved ("ok") or rejected with res
Settle(h, res, status) ==
    /\ pc' = [pc EXCEPT ![h] = "idle"]
    /\ last' = [last EXCEPT ![h].res = res, ![h].status = status]
    /\ returned' = [returned EXCEPT ![h] = @ \/ res = "ok"]

\* initialize(), also reached through __aenter__() and, for a handle made from
\* bytes, through fromMemory(): up to the first await
\* variant: initialize() without its `if (this.initialized) return`
Begin_NoInitializedGuard(h, op) ==
    /\ Idle
    /\ trace' = [trace EXCEPT ![h] = <<>>]
    /\ IF FALSE
       THEN /\ pc' = pc
            /\ last' = [last EXCEPT ![h] = Outcome(op, "ok", <<>>)]
       ELSE /\ pc' = [pc EXCEPT ![h] = "load"]
            /\ last' = [last EXCEPT ![h] = Outcome(op, "pending", <<>>)]
    /\ UNCHANGED <<config, overlapping, _attributes, definedDims,
                   groups, module, initialized, ncid, _isOpen, groupId, dimensions,
                   variables, mockFiles, FSfiles, returned, everClosed>>

Begin(h, op) ==
    /\ Idle
    /\ trace' = [trace EXCEPT ![h] = <<>>]
    /\ IF initialized[h]
       THEN /\ pc' = pc
            /\ last' = [last EXCEPT ![h] = Outcome(op, "ok", <<>>)]
       ELSE /\ pc' = [pc EXCEPT ![h] = "load"]
            /\ last' = [last EXCEPT ![h] = Outcome(op, "pending", <<>>)]
    /\ UNCHANGED <<config, overlapping, _attributes, definedDims,
                   groups, module, initialized, ncid, _isOpen, groupId, dimensions,
                   variables, mockFiles, FSfiles, returned, everClosed>>

fromMemory(h) ==
    /\ memorySource[h] # "none"
    /\ last[h].op = "none"
    /\ Begin(h, "fromMemory")

\* NetCDF4.Dataset(filename, mode, options), also reached through Dataset(source)
\* of index.ts for a string source
Dataset(h) ==
    /\ memorySource[h] = "none"
    /\ ~returned[h]
    /\ last[h].op = "none"
    /\ Begin(h, "Dataset")

initialize(h) ==
    /\ returned[h]
    /\ Begin(h, "initialize")

__aenter__(h) ==
    /\ returned[h]
    /\ Begin(h, "__aenter__")

\* the catch block of initialize(): outside the test environment it rethrows; in
\* it, it installs the mock module and goes on to open() again
Catch(h, e, status) ==
    IF testEnv
    THEN /\ module' = [module EXCEPT ![h] = "mock"]
         /\ initialized' = [initialized EXCEPT ![h] = TRUE]
         /\ pc' = [pc EXCEPT ![h] = "catch"]
         /\ UNCHANGED <<last, returned>>
    ELSE /\ Settle(h, e, status)
         /\ UNCHANGED <<module, initialized>>

\* await WasmModuleLoader.loadModule(options); initialized = true
\* variant: initialize() goes from the load straight to open()
loadModule_SkipsMount(h) ==
    /\ pc[h] = "load"
    /\ \/ /\ module' = [module EXCEPT ![h] = "real"]
          /\ initialized' = [initialized EXCEPT ![h] = TRUE]
          /\ pc' = [pc EXCEPT ![h] = "open"]
          /\ UNCHANGED <<last, returned>>
       \/ Catch(h, "LoadError", 0)
    /\ UNCHANGED <<config, overlapping, _attributes, definedDims,
                   groups, ncid, _isOpen, groupId, dimensions, variables,
                   mockFiles, FSfiles, trace, everClosed>>

loadModule(h) ==
    /\ pc[h] = "load"
    /\ \/ /\ module' = [module EXCEPT ![h] = "real"]
          /\ initialized' = [initialized EXCEPT ![h] = TRUE]
          /\ pc' = [pc EXCEPT ![h] = "mount"]
          /\ UNCHANGED <<last, returned>>
       \/ Catch(h, "LoadError", 0)
    /\ UNCHANGED <<config, overlapping, _attributes, definedDims,
                   groups, ncid, _isOpen, groupId, dimensions, variables,
                   mockFiles, FSfiles, trace, everClosed>>

\* if (memorySource) await mountMemoryData()
\* variant: a failed mount is swallowed and initialize() goes on to open()
mountMemoryData_NonFatal(h) ==
    /\ pc[h] = "mount"
    /\ IF memorySource[h] = "none" \/ module[h] = "null" \/ testEnv
       THEN /\ pc' = [pc EXCEPT ![h] = "open"]
            /\ UNCHANGED <<module, initialized, last, returned, FSfiles, trace>>
       ELSE IF ~hasFS
       THEN /\ pc' = [pc EXCEPT ![h] = "open"]
            /\ UNCHANGED <<module, initialized, last, returned, FSfiles, trace>>
       ELSE /\ trace' = [trace EXCEPT ![h] = Append(@, Call("FS.writeFile", <<filename[h]>>))]
            /\ \/ /\ FSfiles' = FSfiles \cup {filename[h]}
                  /\ pc' = [pc EXCEPT ![h] = "open"]
                  /\ UNCHANGED <<module, initialized, last, returned>>
               \/ /\ pc' = [pc EXCEPT ![h] = "open"]
                  /\ UNCHANGED <<module, initialized, last, returned, FSfiles>>
    /\ UNCHANGED <<config, overlapping, _attributes, definedDims,
                   groups, ncid, _isOpen, groupId, dimensions, variables,
                   mockFiles, everClosed>>

mountMemoryData(h) ==
    /\ pc[h] = "mount"
    /\ IF memorySource[h] = "none" \/ module[h] = "null" \/ testEnv
       THEN /\ pc' = [pc EXCEPT ![h] = "open"]
            /\ UNCHANGED <<module, initialized, last, returned, FSfiles, trace>>
       ELSE IF ~hasFS
       THEN /\ Catch(h, "MountError", 0)
            /\ UNCHANGED <<FSfiles, trace>>
       ELSE /\ trace' = [trace EXCEPT ![h] = Append(@, Call("FS.writeFile", <<filename[h]>>))]
            /\ \/ /\ FSfiles' = FSfiles \cup {filename[h]}
                  /\ pc' = [pc EXCEPT ![h] = "open"]
                  /\ UNCHANGED <<module, initialized, last, returned>>
               \/ /\ Catch(h, "MountError", 0)
                  /\ UNCHANGED FSfiles
    /\ UNCHANGED <<config, overlapping, _attributes, definedDims,
                   groups, ncid, _isOpen, groupId, dimensions, variables,
                   mockFiles, everClosed>>

\* if (this.filename) await this.open(), in the try block (pc "open") and in the
\* catch block (pc "catch")
openStep(h) ==
    /\ pc[h] \in {"open", "catch"}
    /\ IF filename[h] = ""
       THEN /\ Settle(h, "ok", 0)
            /\ UNCHANGED <<module, initialized, ncid, _isOpen, groupId, dimensions,
                           variables, mockFiles, FSfiles, trace>>
       ELSE \E o \in open(h, module[h]) :
            /\ ncid' = [ncid EXCEPT ![h] = o.ncid]
            /\ groupId' = [groupId EXCEPT ![h] = o.groupId]
            /\ _isOpen' = [_isOpen EXCEPT ![h] = o.isOpen]
            /\ dimensions' = [dimensions EXCEPT ![h] = o.dimensions]
            /\ variables' = [variables EXCEPT ![h] = o.variables]
            /\ mockFiles' = o.mockFiles
            /\ FSfiles' = o.FSfiles
            /\ trace' = [trace EXCEPT ![h] = @ \o o.calls]
            /\ IF o.res = "ok" \/ pc[h] = "catch"
               THEN Settle(h, o.res, o.status) /\ UNCHANGED <<module, initialized>>
               ELSE Catch(h, o.res, o.status)
    /\ UNCHANGED <<config, overlapping, _attributes, definedDims,
                   groups, everClosed>>

\* ----------------------------------------------------------- NetCDF4.close
\* variant: close() resets ncid but not _isOpen
closeBody_KeepsOpenFlag(h, op) ==
    /\ Idle
    /\ returned[h]
    /\ IF _isOpen[h] /\ ncid[h] >= 0
       THEN \E r \in nc_close(h, module[h], ncid[h]) :
            /\ trace' = [trace EXCEPT ![h] =
                              <<Returned(Call("nc_close", <<ncid[h]>>), r)>>]
            /\ IF r # NC_NOERR
               THEN /\ last' = [last EXCEPT ![h] = Thrown(op, "EngineError", <<>>, r)]
                    /\ UNCHANGED <<_isOpen, ncid, everClosed>>
               ELSE /\ last' = [last EXCEPT ![h] = Outcome(op, "ok", <<>>)]
                    /\ _isOpen' = _isOpen
                    /\ ncid' = [ncid EXCEPT ![h] = -1]
                    /\ everClosed' = [everClosed EXCEPT ![h] = TRUE]
       ELSE /\ trace' = [trace EXCEPT ![h] = <<>>]
            /\ last' = [last EXCEPT ![h] = Outcome(op, "ok", <<>>)]
            /\ UNCHANGED <<_isOpen, ncid, everClosed>>
    /\ UNCHANGED <<config, overlapping, _attributes, definedDims,
                   groups, module, initialized, groupId, dimensions, variables,
                   mockFiles, FSfiles, pc, returned>>

closeBody(h, op) ==
    /\ Idle
    /\ returned[h]
    /\ IF _isOpen[h] /\ ncid[h] >= 0
       THEN \E r \in nc_close(h, module[h], ncid[h]) :
            /\ trace' = [trace EXCEPT ![h] =
                              <<Returned(Call("nc_close", <<ncid[h]>>), r)>>]
            /\ IF r # NC_NOERR
               THEN /\ last' = [last EXCEPT ![h] = Thrown(op, "EngineError", <<>>, r)]
                    /\ UNCHANGED <<_isOpen, ncid, everClosed>>
               ELSE /\ last' = [last EXCEPT ![h] = Outcome(op, "ok", <<>>)]
                    /\ _isOpen' = [_isOpen EXCEPT ![h] = FALSE]
                    /\ ncid' = [ncid EXCEPT ![h] = -1]
                    /\ everClosed' = [everClosed EXCEPT ![h] = TRUE]
       ELSE /\ trace' = [trace EXCEPT ![h] = <<>>]
            /\ last' = [last EXCEPT ![h] = Outcome(op, "ok", <<>>)]
            /\ UNCHANGED <<_isOpen, ncid, everClosed>>
    /\ UNCHANGED <<config, overlapping, _attributes, definedDims,
                   groups, module, initialized, groupId, dimensions, variables,
                   mockFiles, FSfiles, pc, returned>>

close(h) == closeBody(h, "close")

__aexit__(h) == closeBody(h, "__aexit__")

\* ------------------------------------------------- Group.createDimension
Dimension(name, size, isUnlimited) ==
    [name |-> name, size |-> size, isUnlimited |-> isUnlimited]

\* variant: createDimension without the duplicate-name check
createDimension_NoDuplicateCheck(h, name, size) ==
    /\ Idle
    /\ returned[h]
    /\ LET isUnlimited == size = null \/ size = NC_UNLIMITED
           ncSize      == IF isUnlimited THEN 0 ELSE size
           actualSize  == IF isUnlimited THEN NC_UNLIMITED ELSE size
           call        == Call("nc_def_dim", <<groupId[h], name, ncSize>>)
           Done(res, status, calls, dims, mf, ids) ==
               /\ last' = [last EXCEPT ![h] =
                              Thrown("createDimension", res, <<>>, status)]
               /\ trace' = [trace EXCEPT ![h] = calls]
               /\ dimensions' = [dimensions EXCEPT ![h] = dims]
               /\ mockFiles' = mf
               /\ definedDims' = [definedDims EXCEPT ![h] = ids]
       IN IF FALSE
          THEN Done("DuplicateName", 0, <<>>, dimensions[h], mockFiles, definedDims[h])
          ELSE IF size # null /\ size < 0 /\ size # NC_UNLIMITED
          THEN Done("InvalidSize", 0, <<>>, dimensions[h], mockFiles, definedDims[h])
          ELSE IF module[h] = "null"
          THEN Done("ModuleNotInitialized", 0, <<>>, dimensions[h], mockFiles, definedDims[h])
          ELSE \E r \in nc_def_dim(h, module[h], groupId[h], name, ncSize) :
               IF r.result # NC_NOERR
               THEN Done("EngineError", r.result, <<Returned(call, r.result)>>,
                         dimensions[h], r.mockFiles, definedDims[h])
               ELSE Done("ok", 0, <<call>>,
                         Put(dimensions[h], Dimension(name, actualSize, isUnlimited)),
                         r.mockFiles,
                         Append(definedDims[h], [scope |-> "", name |-> name,
                                            ncid |-> groupId[h], dimid |-> r.dimid]))
    /\ UNCHANGED <<config, overlapping, _attributes, groups, module, initialized, ncid, _isOpen, groupId, variables,
                   FSfiles, pc, returned, everClosed>>

\* variant: only null, not NC_UNLIMITED, is taken as the unlimited size
createDimension_NullOnly(h, name, size) ==
    /\ Idle
    /\ returned[h]
    /\ LET isUnlimited == size = null
           ncSize      == IF isUnlimited THEN 0 ELSE size
           actualSize  == IF isUnlimited THEN NC_UNLIMITED ELSE size
           call        == Call("nc_def_dim", <<groupId[h], name, ncSize>>)
           Done(res, status, calls, dims, mf, ids) ==
               /\ last' = [last EXCEPT ![h] =
                              Thrown("createDimension", res, <<>>, status)]
               /\ trace' = [trace EXCEPT ![h] = calls]
               /\ dimensions' = [dimensions EXCEPT ![h] = dims]
               /\ mockFiles' = mf
               /\ definedDims' = [definedDims EXCEPT ![h] = ids]
       IN IF Has(dimensions[h], name)
          THEN Done("DuplicateName", 0, <<>>, dimensions[h], mockFiles, definedDims[h])
          ELSE IF size # null /\ size < 0 /\ size # NC_UNLIMITED
          THEN Done("InvalidSize", 0, <<>>, dimensions[h], mockFiles, definedDims[h])
          ELSE IF module[h] = "null"
          THEN Done("ModuleNotInitialized", 0, <<>>, dimensions[h], mockFiles, definedDims[h])
          ELSE \E r \in nc_def_dim(h, module[h], groupId[h], name, ncSize) :
               IF r.result # NC_NOERR
               THEN Done("EngineError", r.result, <<Returned(call, r.result)>>,
                         dimensions[h], r.mockFiles, definedDims[h])
               ELSE Done("ok", 0, <<call>>,
                         Put(dimensions[h], Dimension(name, actualSize, isUnlimited)),
                         r.mockFiles,
                         Append(definedDims[h], [scope |-> "", name |-> name,
                                            ncid |-> groupId[h], dimid |-> r.dimid]))
    /\ UNCHANGED <<config, overlapping, _attributes, groups, module, initialized, ncid, _isOpen, groupId, variables,
                   FSfiles, pc, returned, everClosed>>

createDimension(h, name, size) ==
    /\ Idle
    /\ returned[h]
    /\ LET isUnlimited == size = null \/ size = NC_UNLIMITED
           ncSize      == IF isUnlimited THEN 0 ELSE size
           actualSize  == IF isUnlimited THEN NC_UNLIMITED ELSE size
           call        == Call("nc_def_dim", <<groupId[h], name, ncSize>>)
           Done(res, status, calls, dims, mf, ids) ==
               /\ last' = [last EXCEPT ![h] =
                              Thrown("createDimension", res, <<>>, status)]
               /\ trace' = [trace EXCEPT ![h] = calls]
               /\ dimensions' = [dimensions EXCEPT ![h] = dims]
               /\ mockFiles' = mf
               /\ definedDims' = [definedDims EXCEPT ![h] = ids]
       IN IF Has(dimensions[h], name)
          THEN Done("DuplicateName", 0, <<>>, dimensions[h], mockFiles, definedDims[h])
          ELSE IF size # null /\ size < 0 /\ size # NC_UNLIMITED
          THEN Done("InvalidSize", 0, <<>>, dimensions[h], mockFiles, definedDims[h])
          ELSE IF module[h] = "null"
          THEN Done("ModuleNotInitialized", 0, <<>>, dimensions[h], mockFiles, definedDims[h])
          ELSE \E r \in nc_def_dim(h, module[h], groupId[h], name, ncSize) :
               IF r.result # NC_NOERR
               THEN Done("EngineError", r.result, <<Returned(call, r.result)>>,
                         dimensions[h], r.mockFiles, definedDims[h])
               ELSE Done("ok", 0, <<call>>,
                         Put(dimensions[h], Dimension(name, actualSize, isUnlimited)),
                         r.mockFiles,
                         Append(definedDims[h], [scope |-> "", name |-> name,
                                            ncid |-> groupId[h], dimid |-> r.dimid]))
    /\ UNCHANGED <<config, overlapping, _attributes, groups, module, initialized, ncid, _isOpen, groupId, variables,
                   FSfiles, pc, returned, everClosed>>

\* -------------------------------------------------- Group.createVariable
Variable(name, datatype, dims, varid, id) ==
    [name |-> name, datatype |-> datatype, dimensions |-> dims,
     varid |-> varid, ncid |-> id, attributes |-> <<>>]

\* variant: createVariable does not look its dimension names up in the cache
createVariable_NoDimensionCheck(h, name, datatype, dims) ==
    /\ Idle
    /\ returned[h]
    /\ LET dimIds == [i \in 1..Len(dims) |-> IndexOf(dimensions[h], dims[i])]
           Done(res, status, calls, vs, mf) ==
               /\ last' = [last EXCEPT ![h] =
                              Thrown("createVariable", res, <<>>, status)]
               /\ trace' = [trace EXCEPT ![h] = calls]
               /\ variables' = [variables EXCEPT ![h] = vs]
               /\ mockFiles' = mf
       IN IF ncTypeOf(datatype) = undefined
          THEN Done("UnsupportedDatatype", 0, <<>>, variables[h], mockFiles)
          ELSE IF FALSE
          THEN Done("DimensionNotFound", 0, <<>>, variables[h], mockFiles)
          ELSE IF module[h] = "null"
          THEN Done("ModuleNotInitialized", 0, <<>>, variables[h], mockFiles)
          ELSE LET ncType == ncTypeOf(datatype)
                   call == Call("nc_def_var", <<groupId[h], name, ncType, dimIds>>)
               IN \E r \in nc_def_var(h, module[h], groupId[h], name, ncType, dimIds) :
                  IF r.result # NC_NOERR
                  THEN Done("EngineError", r.result, <<Returned(call, r.result)>>, variables[h], r.mockFiles)
                  ELSE Done("ok", 0, <<call>>,
                            Put(variables[h],
                                Variable(name, datatype, dims, r.varid, groupId[h])),
                            IF testEnv /\ HasMockFile(h, r.mockFiles)
                            THEN Put(r.mockFiles,
                                     [MockFile(h, r.mockFiles) EXCEPT !.variables =
                                         Put(@, [name |-> name, datatype |-> datatype,
                                                 dimensions |-> dims, data |-> <<>>,
                                                 attributes |-> <<>>])])
                            ELSE r.mockFiles)
    /\ UNCHANGED <<config, overlapping, _attributes, definedDims,
                   groups, module, initialized, ncid, _isOpen, groupId, dimensions,
                   FSfiles, pc, returned, everClosed>>

createVariable(h, name, datatype, dims) ==
    /\ Idle
    /\ returned[h]
    /\ LET dimIds == [i \in 1..Len(dims) |-> IndexOf(dimensions[h], dims[i])]
           Done(res, status, calls, vs, mf) ==
               /\ last' = [last EXCEPT ![h] =
                              Thrown("createVariable", res, <<>>, status)]
               /\ trace' = [trace EXCEPT ![h] = calls]
               /\ variables' = [variables EXCEPT ![h] = vs]
               /\ mockFiles' = mf
       IN IF ncTypeOf(datatype) = undefined
          THEN Done("UnsupportedDatatype", 0, <<>>, variables[h], mockFiles)
          ELSE IF \E i \in 1..Len(dims) : ~Has(dimensions[h], dims[i])
          THEN Done("DimensionNotFound", 0, <<>>, variables[h], mockFiles)
          ELSE IF module[h] = "null"
          THEN Done("ModuleNotInitialized", 0, <<>>, variables[h], mockFiles)
          ELSE LET ncType == ncTypeOf(datatype)
                   call == Call("nc_def_var", <<groupId[h], name, ncType, dimIds>>)
               IN \E r \in nc_def_var(h, module[h], groupId[h], name, ncType, dimIds) :
                  IF r.result # NC_NOERR
                  THEN Done("EngineError", r.result, <<Returned(call, r.result)>>, variables[h], r.mockFiles)
                  ELSE Done("ok", 0, <<call>>,
                            Put(variables[h],
                                Variable(name, datatype, dims, r.varid, groupId[h])),
                            IF testEnv /\ HasMockFile(h, r.mockFiles)
                            THEN Put(r.mockFiles,
                                     [MockFile(h, r.mockFiles) EXCEPT !.variables =
                                         Put(@, [name |-> name, datatype |-> datatype,
                                                 dimensions |-> dims, data |-> <<>>,
                                                 attributes |-> <<>>])])
                            ELSE r.mockFiles)
    /\ UNCHANGED <<config, overlapping, _attributes, definedDims,
                   groups, module, initialized, ncid, _isOpen, groupId, dimensions,
                   FSfiles, pc, returned, everClosed>>

\* ------------------------------------------- Variable.getValue / setValue
Max(a, b) == IF a >= b THEN a ELSE b

RECURSIVE totalSize(_, _)
totalSize(h, dims) ==
    IF dims = <<>> THEN 1
    ELSE LET n == dims[Len(dims)]
             acc == totalSize(h, SubSeq(dims, 1, Len(dims) - 1))
         IN IF ~Has(dimensions[h], n) THEN acc * 1
            ELSE LET dim == Get(dimensions[h], n)
                     actualSize == IF dim.isUnlimited THEN 0 ELSE dim.size
                 IN acc * Max(actualSize, 0)

getValue(h, name) ==
    /\ Idle
    /\ returned[h]
    /\ Has(variables[h], name)
    /\ LET v == Get(variables[h], name)
           size == totalSize(h, v.dimensions)
           call == Call("nc_get_var_double", <<v.ncid, v.varid, size>>)
           Done(res, status, calls, out) ==
               /\ last' = [last EXCEPT ![h] = Thrown("getValue", res, out, status)]
               /\ trace' = [trace EXCEPT ![h] = calls]
       IN IF v.datatype \notin {"f8", "double", "f4", "float"}
          THEN Done("UnsupportedType", 0, <<>>, <<>>)
          ELSE IF module[h] = "null"
          THEN Done("ModuleNotInitialized", 0, <<>>, <<>>)
          ELSE \E r \in nc_get_var_double(h, module[h], v.ncid, v.varid, size) :
               IF r.result # NC_NOERR
               THEN Done("EngineError", r.result, <<Returned(call, r.result)>>, <<>>)
               ELSE Done("ok", 0, <<call>>, r.data)
    /\ UNCHANGED <<config, overlapping, _attributes, definedDims,
                   groups, module, initialized, ncid, _isOpen, groupId, dimensions,
                   variables, mockFiles, FSfiles, pc, returned, everClosed>>

\* variant: setValue writes a variable of any datatype through the double path
setValue_AnyType(h, name, data) ==
    /\ Idle
    /\ returned[h]
    /\ Has(variables[h], name)
    /\ LET v == Get(variables[h], name)
           call == Call("nc_put_var_double", <<v.ncid, v.varid, data>>)
           Done(res, status, calls, mf) ==
               /\ last' = [last EXCEPT ![h] = Thrown("setValue", res, <<>>, status)]
               /\ trace' = [trace EXCEPT ![h] = calls]
               /\ mockFiles' = mf
       IN IF FALSE
          THEN Done("UnsupportedType", 0, <<>>, mockFiles)
          ELSE IF module[h] = "null"
          THEN Done("ModuleNotInitialized", 0, <<>>, mockFiles)
          ELSE \E r \in nc_put_var_double(h, module[h], v.ncid, v.varid, data) :
               IF r.result # NC_NOERR
               THEN Done("EngineError", r.result, <<Returned(call, r.result)>>, r.mockFiles)
               ELSE Done("ok", 0, <<call>>, r.mockFiles)
    /\ UNCHANGED <<config, overlapping, _attributes, definedDims,
                   groups, module, initialized, ncid, _isOpen, groupId, dimensions,
                   variables, FSfiles, pc, returned, everClosed>>

setValue(h, name, data) ==
    /\ Idle
    /\ returned[h]
    /\ Has(variables[h], name)
    /\ LET v == Get(variables[h], name)
           call == Call("nc_put_var_double", <<v.ncid, v.varid, data>>)
           Done(res, status, calls, mf) ==
               /\ last' = [last EXCEPT ![h] = Thrown("setValue", res, <<>>, status)]
               /\ trace' = [trace EXCEPT ![h] = calls]
               /\ mockFiles' = mf
       IN IF v.datatype \notin {"f8", "double", "f4", "float"}
          THEN Done("UnsupportedType", 0, <<>>, mockFiles)
          ELSE IF module[h] = "null"
          THEN Done("ModuleNotInitialized", 0, <<>>, mockFiles)
          ELSE \E r \in nc_put_var_double(h, module[h], v.ncid, v.varid, data) :
               IF r.result # NC_NOERR
               THEN Done("EngineError", r.result, <<Returned(call, r.result)>>, r.mockFiles)
               ELSE Done("ok", 0, <<call>>, r.mockFiles)
    /\ UNCHANGED <<config, overlapping, _attributes, definedDims,
                   groups, module, initialized, ncid, _isOpen, groupId, dimensions,
                   variables, FSfiles, pc, returned, everClosed>>

\* ----------------------------------------------------- Variable.setncattr
\* variable.setncattr(name, value) on variable vname of the dataset
Variable_setncattr(h, vname, name, value) ==
    /\ Idle
    /\ returned[h]
    /\ Has(variables[h], vname)
    /\ LET v == Get(variables[h], vname)
           attr == [name |-> name, value |-> value]
       IN /\ variables' = [variables EXCEPT ![h] =
                              Put(@, [v EXCEPT !.attributes = Put(@, attr)])]
          /\ mockFiles' =
                IF testEnv /\ HasMockFile(h, mockFiles)
                   /\ Has(MockFile(h, mockFiles).variables, vname)
                THEN LET f == MockFile(h, mockFiles)
                         mv == Get(f.variables, vname)
                     IN Put(mockFiles,
                            [f EXCEPT !.variables =
                                Put(@, [mv EXCEPT !.attributes = Put(@, attr)])])
                ELSE mockFiles
    /\ last' = [last EXCEPT ![h] = Outcome("variable.setncattr", "ok", <<>>)]
    /\ trace' = [trace EXCEPT ![h] = <<>>]
    /\ UNCHANGED <<config, overlapping, _attributes, definedDims,
                   groups, module, initialized, ncid, _isOpen, groupId,
                   dimensions, FSfiles, pc, returned, everClosed>>

\* variable.getncattr(name) on variable vname of the dataset: this._attributes[name]
Variable_getncattr(h, vname, name) ==
    /\ Idle
    /\ returned[h]
    /\ Has(variables[h], vname)
    /\ LET attrs == Get(variables[h], vname).attributes
       IN last' = [last EXCEPT ![h] =
                      Outcome("variable.getncattr", "ok",
                              IF Has(attrs, name) THEN <<Get(attrs, name).value>>
                              ELSE <<>>)]
    /\ trace' = [trace EXCEPT ![h] = <<>>]
    /\ UNCHANGED <<config, overlapping, _attributes, definedDims,
                   groups, module, initialized, ncid, _isOpen,
                   groupId, dimensions, variables, mockFiles, FSfiles, pc, returned,
                   everClosed>>

\* ------------------------------- Group.setncattr / getncattr / ncattrs
\* Object.keys(this._attributes)
ncattrs(attrs) == [i \in 1..Len(attrs) |-> attrs[i].name]

\* mockFiles[dataset.filename].attributes[name] = value, in the test environment
\* when the storage holds the dataset's file
storeAttribute(h, mf, attr) ==
    IF testEnv /\ HasMockFile(h, mf)
    THEN Put(mf, [MockFile(h, mf) EXCEPT !.attributes = Put(@, attr)])
    ELSE mf

\* the value getncattr(name) finds in the mock storage (test environment only):
\* <<value>>, or <<>> when it finds none there
storedAttribute(h, mf, name) ==
    IF testEnv /\ HasMockFile(h, mf) /\ Has(MockFile(h, mf).attributes, name)
    THEN <<Get(MockFile(h, mf).attributes, name).value>>
    ELSE <<>>

\* what getncattr(name) returns for a scope with _attributes attrs: the stored
\* value, else attrs[name]; <<>> is undefined
attributeValue(h, mf, attrs, name) ==
    IF storedAttribute(h, mf, name) # <<>> THEN storedAttribute(h, mf, name)
    ELSE IF Has(attrs, name) THEN <<Get(attrs, name).value>>
    ELSE <<>>

\* what getncattr(name) leaves in the scope's _attributes: a value found in the
\* mock storage is copied into it
syncedAttributes(h, mf, attrs, name) ==
    IF storedAttribute(h, mf, name) # <<>>
    THEN Put(attrs, [name |-> name, value |-> storedAttribute(h, mf, name)[1]])
    ELSE attrs

\* dataset.setncattr(name, value)
setncattr(h, name, value) ==
    /\ Idle
    /\ returned[h]
    /\ _attributes' = [_attributes EXCEPT ![h] = Put(@, [name |-> name, value |-> value])]
    /\ mockFiles' = storeAttribute(h, mockFiles, [name |-> name, value |-> value])
    /\ last' = [last EXCEPT ![h] = Outcome("setncattr", "ok", <<>>)]
    /\ trace' = [trace EXCEPT ![h] = <<>>]
    /\ UNCHANGED <<config, overlapping, definedDims, groups, module, initialized, ncid, _isOpen, groupId,
                   dimensions, variables, FSfiles, pc, returned, everClosed>>

\* dataset.getncattr(name)
getncattr(h, name) ==
    /\ Idle
    /\ returned[h]
    /\ _attributes' = [_attributes EXCEPT ![h] = syncedAttributes(h, mockFiles, @, name)]
    /\ last' = [last EXCEPT ![h] =
                   Outcome("getncattr", "ok",
                           attributeValue(h, mockFiles, _attributes[h], name))]
    /\ trace' = [trace EXCEPT ![h] = <<>>]
    /\ UNCHANGED <<config, overlapping, definedDims, groups, module, initialized, ncid, _isOpen, groupId,
                   dimensions, variables, mockFiles, FSfiles, pc, returned, everClosed>>

\* ------------------------------------------------------ Group.createGroup
\* A child group of the dataset: new Group(netcdf, name, groupId), with its own
\* dimensions and variables.  Its methods are Group's, run with `this` the group
\* and this.netcdf the dataset.
Group(name, id) ==
    [name |-> name, groupId |-> id, dimensions |-> <<>>, variables |-> <<>>,
     _attributes |-> <<>>]

createGroup(h, name) ==
    /\ Idle
    /\ returned[h]
    /\ groups' = [groups EXCEPT ![h] = Put(@, Group(name, groupId[h]))]
    /\ last' = [last EXCEPT ![h] = Outcome("createGroup", "ok", <<>>)]
    /\ trace' = [trace EXCEPT ![h] = <<>>]
    /\ UNCHANGED <<config, overlapping, _attributes, definedDims,
                   module, initialized, ncid, _isOpen, groupId, dimensions,
                   variables, mockFiles, FSfiles, pc, returned, everClosed>>

\* createGroup(name) for a name the dataset has no group of yet
createGroupOnce(h, name) ==
    /\ ~Has(groups[h], name)
    /\ createGroup(h, name)

\* group.createDimension(name, size)
Group_createDimension(h, g, name, size) ==
    /\ Idle
    /\ returned[h]
    /\ Has(groups[h], g)
    /\ LET this        == Get(groups[h], g)
           isUnlimited == size = null \/ size = NC_UNLIMITED
           ncSize      == IF isUnlimited THEN 0 ELSE size
           actualSize  == IF isUnlimited THEN NC_UNLIMITED ELSE size
           call        == Call("nc_def_dim", <<this.groupId, name, ncSize>>)
           Done(res, status, calls, dims, mf, ids) ==
               /\ last' = [last EXCEPT ![h] =
                              Thrown("group.createDimension", res, <<>>, status)]
               /\ trace' = [trace EXCEPT ![h] = calls]
               /\ groups' = [groups EXCEPT ![h] =
                                Put(@, [this EXCEPT !.dimensions = dims])]
               /\ mockFiles' = mf
               /\ definedDims' = [definedDims EXCEPT ![h] = ids]
       IN IF Has(this.dimensions, name)
          THEN Done("DuplicateName", 0, <<>>, this.dimensions, mockFiles, definedDims[h])
          ELSE IF size # null /\ size < 0 /\ size # NC_UNLIMITED
          THEN Done("InvalidSize", 0, <<>>, this.dimensions, mockFiles, definedDims[h])
          ELSE IF module[h] = "null"
          THEN Done("ModuleNotInitialized", 0, <<>>, this.dimensions, mockFiles, definedDims[h])
          ELSE \E r \in nc_def_dim(h, module[h], this.groupId, name, ncSize) :
               IF r.result # NC_NOERR
               THEN Done("EngineError", r.result, <<Returned(call, r.result)>>,
                         this.dimensions, r.mockFiles, definedDims[h])
               ELSE Done("ok", 0, <<call>>,
                         Put(this.dimensions, Dimension(name, actualSize, isUnlimited)),
                         r.mockFiles,
                         Append(definedDims[h], [scope |-> g, name |-> name,
                                            ncid |-> this.groupId, dimid |-> r.dimid]))
    /\ UNCHANGED <<config, overlapping, _attributes, module, initialized, ncid, _isOpen, groupId, dimensions,
                   variables, FSfiles, pc, returned, everClosed>>

\* group.createVariable(name, datatype, dimensions)
Group_createVariable(h, g, name, datatype, dims) ==
    /\ Idle
    /\ returned[h]
    /\ Has(groups[h], g)
    /\ LET this   == Get(groups[h], g)
           dimIds == [i \in 1..Len(dims) |-> IndexOf(this.dimensions, dims[i])]
           Done(res, status, calls, vs, mf) ==
               /\ last' = [last EXCEPT ![h] =
                              Thrown("group.createVariable", res, <<>>, status)]
               /\ trace' = [trace EXCEPT ![h] = calls]
               /\ groups' = [groups EXCEPT ![h] =
                                Put(@, [this EXCEPT !.variables = vs])]
               /\ mockFiles' = mf
       IN IF ncTypeOf(datatype) = undefined
          THEN Done("UnsupportedDatatype", 0, <<>>, this.variables, mockFiles)
          ELSE IF \E i \in 1..Len(dims) : ~Has(this.dimensions, dims[i])
          THEN Done("DimensionNotFound", 0, <<>>, this.variables, mockFiles)
          ELSE IF module[h] = "null"
          THEN Done("ModuleNotInitialized", 0, <<>>, this.variables, mockFiles)
          ELSE LET ncType == ncTypeOf(datatype)
                   call == Call("nc_def_var", <<this.groupId, name, ncType, dimIds>>)
               IN \E r \in nc_def_var(h, module[h], this.groupId, name, ncType, dimIds) :
                  IF r.result # NC_NOERR
                  THEN Done("EngineError", r.result, <<Returned(call, r.result)>>, this.variables, r.mockFiles)
                  ELSE Done("ok", 0, <<call>>,
                            Put(this.variables,
                                Variable(name, datatype, dims, r.varid, this.groupId)),
                            IF testEnv /\ HasMockFile(h, r.mockFiles)
                            THEN Put(r.mockFiles,
                                     [MockFile(h, r.mockFiles) EXCEPT !.variables =
                                         Put(@, [name |-> name, datatype |-> datatype,
                                                 dimensions |-> dims, data |-> <<>>,
                                                 attributes |-> <<>>])])
                            ELSE r.mockFiles)
    /\ UNCHANGED <<config, overlapping, _attributes, definedDims,
                   module, initialized, ncid, _isOpen, groupId, dimensions,
                   variables, FSfiles, pc, returned, everClosed>>

\* group.variables[name].getValue(): the sizes are looked up in
\* this.netcdf.dimensions, the dimensions of the dataset
Group_getValue(h, g, name) ==
    /\ Idle
    /\ returned[h]
    /\ Has(groups[h], g)
    /\ Has(Get(groups[h], g).variables, name)
    /\ LET v == Get(Get(groups[h], g).variables, name)
           size == totalSize(h, v.dimensions)
           call == Call("nc_get_var_double", <<v.ncid, v.varid, size>>)
           Done(res, status, calls, out) ==
               /\ last' = [last EXCEPT ![h] = Thrown("group.getValue", res, out, status)]
               /\ trace' = [trace EXCEPT ![h] = calls]
       IN IF v.datatype \notin {"f8", "double", "f4", "float"}
          THEN Done("UnsupportedType", 0, <<>>, <<>>)
          ELSE IF module[h] = "null"
          THEN Done("ModuleNotInitialized", 0, <<>>, <<>>)
          ELSE \E r \in nc_get_var_double(h, module[h], v.ncid, v.varid, size) :
               IF r.result # NC_NOERR
               THEN Done("EngineError", r.result, <<Returned(call, r.result)>>, <<>>)
               ELSE Done("ok", 0, <<call>>, r.data)
    /\ UNCHANGED <<config, overlapping, _attributes, definedDims,
                   groups, module, initialized, ncid, _isOpen, groupId,
                   dimensions, variables, mockFiles, FSfiles, pc, returned, everClosed>>

\* group.setncattr(name, value): the storage entry is that of the dataset's file
Group_setncattr(h, g, name, value) ==
    /\ Idle
    /\ returned[h]
    /\ Has(groups[h], g)
    /\ LET this == Get(groups[h], g)
       IN groups' = [groups EXCEPT ![h] =
                        Put(@, [this EXCEPT !._attributes =
                                   Put(@, [name |-> name, value |-> value])])]
    /\ mockFiles' = storeAttribute(h, mockFiles, [name |-> name, value |-> value])
    /\ last' = [last EXCEPT ![h] = Outcome("group.setncattr", "ok", <<>>)]
    /\ trace' = [trace EXCEPT ![h] = <<>>]
    /\ UNCHANGED <<config, overlapping, _attributes, definedDims,
                   module, initialized, ncid, _isOpen, groupId,
                   dimensions, variables, FSfiles, pc, returned, everClosed>>

\* group.getncattr(name)
Group_getncattr(h, g, name) ==
    /\ Idle
    /\ returned[h]
    /\ Has(groups[h], g)
    /\ LET this == Get(groups[h], g)
       IN /\ groups' = [groups EXCEPT ![h] =
                           Put(@, [this EXCEPT !._attributes =
                                      syncedAttributes(h, mockFiles, @, name)])]
          /\ last' = [last EXCEPT ![h] =
                         Outcome("group.getncattr", "ok",
                                 attributeValue(h, mockFiles, this._attributes, name))]
    /\ trace' = [trace EXCEPT ![h] = <<>>]
    /\ UNCHANGED <<config, overlapping, _attributes, definedDims,
                   module, initialized, ncid, _isOpen, groupId,
                   dimensions, variables, mockFiles, FSfiles, pc, returned, everClosed>>

\* ---------------------------------------------------- NetCDF4.toArrayBuffer
\* variant: toArrayBuffer() refuses a handle that is not open
toArrayBuffer_RequiresOpen(h) ==
    /\ Idle
    /\ returned[h]
    /\ LET Done(res, status, calls) ==
               /\ last' = [last EXCEPT ![h] = Thrown("toArrayBuffer", res, <<>>, status)]
               /\ trace' = [trace EXCEPT ![h] = calls]
       IN IF module[h] = "null" \/ ~_isOpen[h]
          THEN Done("ModuleNotInitialized", 0, <<>>)
          ELSE IF testEnv
          THEN Done("ok", 0, <<>>)
          ELSE IF ~hasFS \/ filename[h] = ""
          THEN Done("ExportError", 0, <<>>)
          ELSE IF filename[h] \in FSfiles
          THEN Done("ok", 0, <<Call("FS.readFile", <<filename[h]>>)>>)
          ELSE Done("ExportError", 0, <<Call("FS.readFile", <<filename[h]>>)>>)
    /\ UNCHANGED <<config, overlapping, _attributes, definedDims,
                   groups, module, initialized, ncid, _isOpen, groupId, dimensions,
                   variables, mockFiles, FSfiles, pc, returned, everClosed>>

\* variant: toArrayBuffer() refuses a handle that has no memory source
toArrayBuffer_RequiresMemorySource(h) ==
    /\ Idle
    /\ returned[h]
    /\ LET Done(res, status, calls) ==
               /\ last' = [last EXCEPT ![h] = Thrown("toArrayBuffer", res, <<>>, status)]
               /\ trace' = [trace EXCEPT ![h] = calls]
       IN IF module[h] = "null"
          THEN Done("ModuleNotInitialized", 0, <<>>)
          ELSE IF testEnv
          THEN Done("ok", 0, <<>>)
          ELSE IF memorySource[h] = "none"
          THEN Done("ExportError", 0, <<>>)
          ELSE IF ~hasFS \/ filename[h] = ""
          THEN Done("ExportError", 0, <<>>)
          ELSE IF filename[h] \in FSfiles
          THEN Done("ok", 0, <<Call("FS.readFile", <<filename[h]>>)>>)
          ELSE Done("ExportError", 0, <<Call("FS.readFile", <<filename[h]>>)>>)
    /\ UNCHANGED <<config, overlapping, _attributes, definedDims,
                   groups, module, initialized, ncid, _isOpen, groupId, dimensions,
                   variables, mockFiles, FSfiles, pc, returned, everClosed>>

toArrayBuffer(h) ==
    /\ Idle
    /\ returned[h]
    /\ LET Done(res, status, calls) ==
               /\ last' = [last EXCEPT ![h] = Thrown("toArrayBuffer", res, <<>>, status)]
               /\ trace' = [trace EXCEPT ![h] = calls]
       IN IF module[h] = "null"
          THEN Done("ModuleNotInitialized", 0, <<>>)
          ELSE IF testEnv
          THEN Done("ok", 0, <<>>)
          ELSE IF ~hasFS \/ filename[h] = ""
          THEN Done("ExportError", 0, <<>>)
          ELSE IF filename[h] \in FSfiles
          THEN Done("ok", 0, <<Call("FS.readFile", <<filename[h]>>)>>)
          ELSE Done("ExportError", 0, <<Call("FS.readFile", <<filename[h]>>)>>)
    /\ UNCHANGED <<config, overlapping, _attributes, definedDims,
                   groups, module, initialized, ncid, _isOpen, groupId, dimensions,
                   variables, mockFiles, FSfiles, pc, returned, everClosed>>

\* ------------------------------------------- calls that overlap on a handle
\* An async method runs up to its first await when it is called, and the rest
\* once the awaited promise has settled. A caller that makes a call without
\* awaiting the one before has both in flight. overlapping[h] holds the calls made
\* that way: where each stands ("load", "mount", "open", "catch" as pc does;
\* "resume": at the await of its engine call; "settled"), the engine status and
\* id its engine call returned, and how it settled.
MaxOverlap == 2

Invocation(op, name, size, at) ==
    [op |-> op, name |-> name, size |-> size, at |-> at,
     res |-> IF at = "settled" THEN "ok" ELSE "pending",
     status |-> 0, result |-> 0, id |-> -1]

\* the calls in flight, and the engine calls made since the first of them
InFlight(h) == IF Settled(h) THEN <<>> ELSE overlapping[h]
InFlightCalls(h) == IF Settled(h) /\ pc[h] = "idle" THEN <<>> ELSE trace[h]

\* continuations run in the order their awaits were reached
Resumes(h, k) ==
    /\ k \in 1..Len(overlapping[h])
    /\ overlapping[h][k].at = "resume"
    /\ \A j \in 1..(k - 1) : overlapping[h][j].at # "resume"

OverlapSettle(h, k, res, status) ==
    overlapping' = [overlapping EXCEPT ![h][k].at = "settled",
                                       ![h][k].res = res,
                                       ![h][k].status = status]

\* the catch block of initialize(), for the call overlapping[h][k]
OverlapCatch(h, k, e, status) ==
    IF testEnv
    THEN /\ module' = [module EXCEPT ![h] = "mock"]
         /\ initialized' = [initialized EXCEPT ![h] = TRUE]
         /\ overlapping' = [overlapping EXCEPT ![h][k].at = "catch"]
    ELSE /\ OverlapSettle(h, k, e, status)
         /\ UNCHANGED <<module, initialized>>

\* initialize() or __aenter__() called while a call of initialize() is in flight:
\* up to the first await
Overlap_initialize(h, op) ==
    /\ returned[h]
    /\ pc[h] # "idle"
    /\ Len(InFlight(h)) + 1 < MaxOverlap
    /\ overlapping' = [overlapping EXCEPT ![h] =
          Append(InFlight(h),
                 Invocation(op, "", 0, IF initialized[h] THEN "settled" ELSE "load"))]
    /\ UNCHANGED <<config, _attributes, definedDims, groups, module, initialized,
                   ncid, _isOpen, groupId, dimensions, variables, mockFiles,
                   FSfiles, pc, returned, last, trace, everClosed>>

\* await WasmModuleLoader.loadModule(options); initialized = true
Overlap_loadModule(h, k) ==
    /\ k \in 1..Len(overlapping[h])
    /\ overlapping[h][k].at = "load"
    /\ \/ /\ module' = [module EXCEPT ![h] = "real"]
          /\ initialized' = [initialized EXCEPT ![h] = TRUE]
          /\ overlapping' = [overlapping EXCEPT ![h][k].at = "mount"]
       \/ OverlapCatch(h, k, "LoadError", 0)
    /\ UNCHANGED <<config, _attributes, definedDims, groups, ncid, _isOpen,
                   groupId, dimensions, variables, mockFiles, FSfiles, pc,
                   returned, last, trace, everClosed>>

\* if (memorySource) await mountMemoryData()
Overlap_mountMemoryData(h, k) ==
    /\ k \in 1..Len(overlapping[h])
    /\ overlapping[h][k].at = "mount"
    /\ IF memorySource[h] = "none" \/ module[h] = "null" \/ testEnv
       THEN /\ overlapping' = [overlapping EXCEPT ![h][k].at = "open"]
            /\ UNCHANGED <<module, initialized, FSfiles, trace>>
       ELSE IF ~hasFS
       THEN /\ OverlapCatch(h, k, "MountError", 0)
            /\ UNCHANGED <<FSfiles, trace>>
       ELSE /\ trace' = [trace EXCEPT ![h] = Append(@, Call("FS.writeFile", <<filename[h]>>))]
            /\ \/ /\ FSfiles' = FSfiles \cup {filename[h]}
                  /\ overlapping' = [overlapping EXCEPT ![h][k].at = "open"]
                  /\ UNCHANGED <<module, initialized>>
               \/ /\ OverlapCatch(h, k, "MountError", 0)
                  /\ UNCHANGED FSfiles
    /\ UNCHANGED <<config, _attributes, definedDims, groups, ncid, _isOpen,
                   groupId, dimensions, variables, mockFiles, pc, returned, last,
                   everClosed>>

\* if (this.filename) await this.open(): open() up to the await of createFile /
\* openFile, which have made the engine call when they return their promise
Overlap_open(h, k) ==
    /\ k \in 1..Len(overlapping[h])
    /\ overlapping[h][k].at \in {"open", "catch"}
    /\ IF filename[h] = ""
       THEN /\ OverlapSettle(h, k, "ok", 0)
            /\ UNCHANGED <<module, initialized, mockFiles, FSfiles, trace>>
       ELSE \E o \in open(h, module[h]) :
            /\ mockFiles' = o.mockFiles
            /\ FSfiles' = o.FSfiles
            /\ trace' = [trace EXCEPT ![h] = @ \o o.calls]
            /\ IF o.res = "ok"
               THEN /\ IF o.calls = <<>>
                       THEN OverlapSettle(h, k, "ok", 0)
                       ELSE overlapping' = [overlapping EXCEPT ![h][k].at = "resume",
                                                               ![h][k].id = o.ncid]
                    /\ UNCHANGED <<module, initialized>>
               ELSE IF overlapping[h][k].at = "catch"
               THEN OverlapSettle(h, k, o.res, o.status) /\ UNCHANGED <<module, initialized>>
               ELSE OverlapCatch(h, k, o.res, o.status)
    /\ UNCHANGED <<config, _attributes, definedDims, groups, ncid, _isOpen,
                   groupId, dimensions, variables, pc, returned, last, everClosed>>

\* open() after the await: this.ncid = result; groupId; loadMockDimensions();
\* this._isOpen = true
Overlap_openResume(h, k) ==
    /\ Resumes(h, k)
    /\ overlapping[h][k].op # "createDimension"
    /\ LET id == overlapping[h][k].id
           ld == IF mode[h] \in {"w", "w-"}
                 THEN [dimensions |-> dimensions[h], variables |-> variables[h]]
                 ELSE loadMockDimensions(h, mockFiles, id)
       IN /\ ncid' = [ncid EXCEPT ![h] = id]
          /\ groupId' = [groupId EXCEPT ![h] = id]
          /\ dimensions' = [dimensions EXCEPT ![h] = ld.dimensions]
          /\ variables' = [variables EXCEPT ![h] = ld.variables]
          /\ _isOpen' = [_isOpen EXCEPT ![h] = TRUE]
          /\ OverlapSettle(h, k, "ok", 0)
    /\ UNCHANGED <<config, _attributes, definedDims, groups, module, initialized,
                   mockFiles, FSfiles, pc, returned, last, trace, everClosed>>

\* createDimension(name, size) called without awaiting the calls before it: up to
\* the await of defineDimension, which has made the engine call when it returns
Overlap_createDimension(h, name, size) ==
    /\ returned[h]
    /\ pc[h] = "idle"
    /\ Len(InFlight(h)) < MaxOverlap
    /\ LET isUnlimited == size = null \/ size = NC_UNLIMITED
           ncSize      == IF isUnlimited THEN 0 ELSE size
           call        == Call("nc_def_dim", <<groupId[h], name, ncSize>>)
           Rejected(res) ==
               /\ overlapping' = [overlapping EXCEPT ![h] =
                     Append(InFlight(h),
                            [Invocation("createDimension", name, size, "settled")
                                EXCEPT !.res = res])]
               /\ trace' = [trace EXCEPT ![h] = InFlightCalls(h)]
               /\ UNCHANGED <<mockFiles, definedDims>>
       IN IF Has(dimensions[h], name)
          THEN Rejected("DuplicateName")
          ELSE IF size # null /\ size < 0 /\ size # NC_UNLIMITED
          THEN Rejected("InvalidSize")
          ELSE IF module[h] = "null"
          THEN Rejected("ModuleNotInitialized")
          ELSE \E r \in nc_def_dim(h, module[h], groupId[h], name, ncSize) :
               /\ overlapping' = [overlapping EXCEPT ![h] =
                     Append(InFlight(h),
                            [Invocation("createDimension", name, size, "resume")
                                EXCEPT !.result = r.result])]
               /\ trace' = [trace EXCEPT ![h] =
                               Append(InFlightCalls(h), Returned(call, r.result))]
               /\ mockFiles' = r.mockFiles
               /\ definedDims' = [definedDims EXCEPT ![h] =
                     IF r.result = NC_NOERR
                     THEN Append(@, [scope |-> "", name |-> name,
                                     ncid |-> groupId[h], dimid |-> r.dimid])
                     ELSE @]
    /\ UNCHANGED <<config, _attributes, groups, module, initialized, ncid, _isOpen,
                   groupId, dimensions, variables, FSfiles, pc, returned, last,
                   everClosed>>

\* createDimension after the await: defineDimension's error is thrown, or
\* this.dimensions[name] = dimension
Overlap_createDimensionResume(h, k) ==
    /\ Resumes(h, k)
    /\ overlapping[h][k].op = "createDimension"
    /\ LET c           == overlapping[h][k]
           isUnlimited == c.size = null \/ c.size = NC_UNLIMITED
           actualSize  == IF isUnlimited THEN NC_UNLIMITED ELSE c.size
       IN IF c.result # NC_NOERR
          THEN /\ OverlapSettle(h, k, "EngineError", c.result)
               /\ UNCHANGED dimensions
          ELSE /\ OverlapSettle(h, k, "ok", 0)
               /\ dimensions' = [dimensions EXCEPT ![h] =
                     Put(@, Dimension(c.name, actualSize, isUnlimited))]
    /\ UNCHANGED <<config, _attributes, definedDims, groups, module, initialized,
                   ncid, _isOpen, groupId, variables, mockFiles, FSfiles, pc,
                   returned, last, trace, everClosed>>

\* -------------------------------------------------------------------- Next
Lifecycle(h) ==
    \/ fromMemory(h)
    \/ initialize(h)
    \/ __aenter__(h)
    \/ loadModule(h)
    \/ mountMemoryData(h)
    \/ openStep(h)
    \/ close(h)
    \/ __aexit__(h)

Structure(h, vnames) ==
    \/ \E name \in DimNames, size \in Sizes : createDimension(h, name, size)
    \/ \E name \in vnames, datatype \in Datatypes, dims \in DimLists :
          createVariable(h, name, datatype, dims)

Data(h, vnames) ==
    \/ \E name \in vnames : getValue(h, name)
    \/ \E name \in vnames, data \in DataInputs : setValue(h, name, data)

\* Spec: the life of one handle over every source, filename, mode and format
Next == \E h \in Handles : Lifecycle(h) \/ Dataset(h) \/ toArrayBuffer(h)

Spec == Init /\ [][Next]_vars

\* SpecData: a handle on a usable filename, with its dimensions, variables and data
InitData ==
    /\ InitCommon
    /\ \A h \in Handles :
          /\ filename[h] = IF memorySource[h] = "none" THEN "a.nc" ELSE virtualFilename("")
          /\ mode[h] \in {"w", "r"}
          /\ options[h].format = "undefined"
          /\ memorySource[h] \in {"none", "Uint8Array"}
          /\ returned[h] = (memorySource[h] = "none")

NextData ==
    \E h \in Handles :
        Lifecycle(h) \/ Structure(h, {"v"}) \/ Data(h, {"v"}) \/ toArrayBuffer(h)

SpecData == InitData /\ [][NextData]_vars

\* SpecDims: the same handles, defining dimensions only
NextDims ==
    \E h \in Handles :
        \/ Lifecycle(h)
        \/ \E name \in DimNames, size \in Sizes : createDimension(h, name, size)

SpecDims == InitData /\ [][NextDims]_vars

\* SpecVars: a handle made from the path "a.nc" in mode 'w', defining one
\* dimension and variables of every datatype, and reading and writing them
InitPath ==
    /\ InitData
    /\ hasFS
    /\ \A h \in Handles : memorySource[h] = "none" /\ mode[h] = "w"

PathLifecycle(h) ==
    \/ initialize(h)
    \/ __aenter__(h)
    \/ loadModule(h)
    \/ mountMemoryData(h)
    \/ openStep(h)
    \/ close(h)
    \/ __aexit__(h)

NextVars ==
    \E h \in Handles :
        \/ PathLifecycle(h)
        \/ \E size \in Sizes : createDimension(h, "x", size)
        \/ \E datatype \in AllDatatypes, dims \in DimLists :
              createVariable(h, "v", datatype, dims)
        \/ Data(h, {"v"})

SpecVars == InitPath /\ [][NextVars]_vars

\* SpecDefs: the same handle, defining dimensions and one variable
NextDefs ==
    \E h \in Handles :
        \/ PathLifecycle(h)
        \/ \E name \in DimNames, size \in Sizes : createDimension(h, name, size)
        \/ \E datatype \in Datatypes, dims \in DimLists :
              createVariable(h, "v", datatype, dims)

SpecDefs == InitPath /\ [][NextDefs]_vars

\* SpecTwoVars: the same handle, with two f8 variables that are written and read
NextTwoVars ==
    \E h \in Handles :
        \/ PathLifecycle(h)
        \/ \E size \in Sizes : createDimension(h, "x", size)
        \/ \E name \in VarNames, dims \in {<<>>, <<"x">>} :
              createVariable(h, name, "f8", dims)
        \/ Data(h, VarNames)

SpecTwoVars == InitPath /\ [][NextTwoVars]_vars

\* SpecGroups: the same handle with a child group, created once; dimension "x"
\* and variable "v" are defined and read in the dataset and in the group
NextGroups ==
    \E h \in Handles :
        \/ PathLifecycle(h)
        \/ \E size \in Sizes : createDimension(h, "x", size)
        \/ \E dims \in {<<>>, <<"x">>} : createVariable(h, "v", "f8", dims)
        \/ getValue(h, "v")
        \/ \E g \in GroupNames : createGroupOnce(h, g)
        \/ \E g \in GroupNames, size \in Sizes : Group_createDimension(h, g, "x", size)
        \/ \E g \in GroupNames, dims \in {<<>>, <<"x">>} :
              Group_createVariable(h, g, "v", "f8", dims)
        \/ \E g \in GroupNames : Group_getValue(h, g, "v")

SpecGroups == InitPath /\ [][NextGroups]_vars

\* SpecAttrs: the same handle with two child groups and a variable; attributes
\* are set and looked up on the dataset, on the groups and on the variable
SiblingNames == {"g", "k"}

NextAttrs ==
    \E h \in Handles :
        \/ PathLifecycle(h)
        \/ createVariable(h, "v", "f8", <<>>)
        \/ \E g \in SiblingNames : createGroup(h, g)
        \/ \E name \in AttrNames, value \in AttrValues :
              \/ setncattr(h, name, value)
              \/ Variable_setncattr(h, "v", name, value)
              \/ \E g \in SiblingNames : Group_setncattr(h, g, name, value)
        \/ \E name \in AttrNames :
              \/ getncattr(h, name)
              \/ Variable_getncattr(h, "v", name)
              \/ \E g \in SiblingNames : Group_getncattr(h, g, name)

SpecAttrs == InitPath /\ [][NextAttrs]_vars

\* SpecReopen: two handles made from the path "a.nc".  The first creates the
\* dataset in mode 'w', defines its dimensions, a variable and its attribute and
\* closes; then the second is initialized in mode 'r', 'w' or 'w-'.
Writer == 1
Reader == 2

InitReopen ==
    /\ InitOver({Writer, Reader})
    /\ hasFS
    /\ \A h \in {Writer, Reader} :
          /\ filename[h] = "a.nc"
          /\ memorySource[h] = "none"
          /\ options[h].format = "undefined"
          /\ returned[h]
    /\ mode[Writer] = "w"
    /\ mode[Reader] \in {"r", "w", "w-"}

WriterStep ==
    /\ ~everClosed[Writer]
    /\ \/ PathLifecycle(Writer)
       \/ /\ _isOpen[Writer]
          /\ \/ \E name \in DimNames, size \in {null} \cup (0..MaxSize) :
                   createDimension(Writer, name, size)
             \/ \E datatype \in Datatypes, dims \in DimLists :
                   createVariable(Writer, "v", datatype, dims)
             \/ \E name \in AttrNames, value \in AttrValues :
                   Variable_setncattr(Writer, "v", name, value)

ReaderStep ==
    /\ everClosed[Writer]
    /\ PathLifecycle(Reader)

NextReopen == WriterStep \/ ReaderStep

SpecReopen == InitReopen /\ [][NextReopen]_vars

\* SpecPair: two handles made from the paths "a.nc" and "b.nc" in mode 'w', open
\* at the same time; each defines a dimension and a variable, sets an attribute
\* and writes data, in any interleaving
Pair == {1, 2}
PairData == {<<10>>, <<10, 20>>}

InitPair ==
    /\ InitOver(Pair)
    /\ hasFS
    /\ filename = [h \in Pair |-> IF h = 1 THEN "a.nc" ELSE "b.nc"]
    /\ \A h \in Pair :
          /\ memorySource[h] = "none"
          /\ mode[h] = "w"
          /\ options[h].format = "undefined"
          /\ returned[h]

PairStep(h) ==
    \/ initialize(h)
    \/ loadModule(h)
    \/ mountMemoryData(h)
    \/ openStep(h)
    \/ /\ _isOpen[h]
       /\ \/ createDimension(h, "x", MaxSize)
          \/ \E dims \in {<<>>, <<"x">>} : createVariable(h, "v", "f8", dims)
          \/ \E name \in AttrNames : setncattr(h, name, "K")
          \/ \E data \in PairData : setValue(h, "v", data)

NextPair == \E h \in Pair : PairStep(h)

SpecPair == InitPair /\ [][NextPair]_vars

\* SpecOverlap: one handle on "a.nc" whose caller does not await its calls of
\* initialize(), __aenter__() and createDimension('x', ...)
OverlapSizes == {-1, 1, null}

Overlapping(h) ==
    \/ \E op \in {"initialize", "__aenter__"} : Overlap_initialize(h, op)
    \/ \E k \in 1..MaxOverlap :
          \/ Overlap_loadModule(h, k)
          \/ Overlap_mountMemoryData(h, k)
          \/ Overlap_open(h, k)
          \/ Overlap_openResume(h, k)
          \/ Overlap_createDimensionResume(h, k)
    \/ \E size \in OverlapSizes : Overlap_createDimension(h, "x", size)

NextOverlap ==
    \E h \in Handles :
        \/ initialize(h)
        \/ __aenter__(h)
        \/ loadModule(h)
        \/ mountMemoryData(h)
        \/ openStep(h)
        \/ Overlapping(h)

SpecOverlap == InitPath /\ [][NextOverlap]_vars

\* ================================================================= claims
OpenCalls      == {"nc_open", "nc_create"}
InitOps        == {"fromMemory", "Dataset", "initialize", "__aenter__"}
CacheOps       == {"createDimension", "createVariable", "getValue", "setValue"}
RecognizedModes == {"r", "w", "w-", "a", "r+"}
CallsOf(h, fns) == {i \in 1..Len(trace[h]) : trace[h][i].fn \in fns}
FromBytes(h)   == memorySource[h] # "none"

\* C1: after close() has completed, every later createDimension, createVariable,
\* getValue and setValue on the handle fails with a not-open error, and the
\* handle's dimensions and variables stay as they were at close time.
C1_ClosedHandleRejects ==
    /\ [](\A h \in Handles :
            (everClosed[h] /\ last[h].op \in CacheOps) => last[h].res = "NotOpenError")
    /\ [][\A h \in Handles :
            everClosed[h] => /\ dimensions'[h] = dimensions[h]
                             /\ variables'[h] = variables[h]]_vars

\* C2: close() on a handle that is not open (already closed, or never opened)
\* does not throw, makes no engine call and leaves isopen false; a close() that
\* succeeds on an open handle leaves isopen false.
C2_CloseIdempotent ==
    [][\A h \in Handles :
         (close(h) \/ __aexit__(h)) =>
            IF ~_isOpen[h]
            THEN last'[h].res = "ok" /\ trace'[h] = <<>> /\ ~_isOpen'[h]
            ELSE last'[h].res = "ok" => ~_isOpen'[h]]_vars

C2_Witness ==
    \E h \in Handles :
        everClosed[h] /\ last[h] = Outcome("close", "ok", <<>>) /\ trace[h] = <<>>

\* C3: isopen turns true only in the open of initialize() on a handle that was
\* never closed, turns false only in close() / __aexit__(), and once the handle
\* has been closed no operation makes it true again.
C3_OpenStateMonotone ==
    [][\A h \in Handles :
         /\ (~_isOpen[h] /\ _isOpen'[h]) => (openStep(h) /\ ~everClosed[h])
         /\ (_isOpen[h] /\ ~_isOpen'[h]) => (close(h) \/ __aexit__(h))
         /\ everClosed[h] => ~_isOpen'[h]]_vars

C3_Witness ==
    \E h \in Handles :
        everClosed[h] /\ ~_isOpen[h] /\ last[h].op \in {"initialize", "__aenter__"}

\* C4 as stated: with a mode outside the five recognized strings the engine's
\* open and create are never called and the open() of initialize() fails with
\* the unsupported-mode error; with a recognized mode nothing fails with that
\* error.
C4_Original ==
    /\ [](\A h \in Handles :
            /\ mode[h] \notin RecognizedModes => CallsOf(h, OpenCalls) = {}
            /\ mode[h] \in RecognizedModes => last[h].res # "UnsupportedMode")
    /\ [][\A h \in Handles :
            (openStep(h) /\ mode[h] \notin RecognizedModes /\ pc'[h] = "idle")
               => last'[h].res = "UnsupportedMode"]_vars

\* C4 amended: with a mode outside the five recognized strings the engine's open
\* and create are never called, the handle never opens and fromMemory returns no
\* handle; the open() of initialize() fails with the unsupported-mode error when
\* the filename is not blank (open() checks the filename first, and initialize()
\* skips open() for an empty filename).  With a recognized mode nothing fails
\* with that error.
C4_ModeValidation ==
    /\ [](\A h \in Handles :
            /\ mode[h] \notin RecognizedModes =>
                  /\ CallsOf(h, OpenCalls) = {}
                  /\ ~_isOpen[h]
                  /\ ~(FromBytes(h) /\ returned[h])
            /\ mode[h] \in RecognizedModes => last[h].res # "UnsupportedMode")
    /\ [][\A h \in Handles :
            (openStep(h) /\ mode[h] \notin RecognizedModes /\ ~IsBlank(filename[h])
                /\ pc'[h] = "idle")
               => last'[h].res = "UnsupportedMode"]_vars

C4_Witness ==
    \E h \in Handles :
        /\ mode[h] \notin RecognizedModes
        /\ last[h].op \in InitOps /\ last[h].res = "UnsupportedMode"
        /\ pc[h] = "idle"

\* C5 as stated: for a handle made from bytes, every engine open / create call
\* comes after the bytes were written into the virtual filesystem under the
\* handle's filename.
Mounted(h, i) ==
    /\ \E j \in 1..(i - 1) : trace[h][j] = Call("FS.writeFile", <<filename[h]>>)
    /\ filename[h] \in FSfiles

C5_Original ==
    \A h \in Handles :
        FromBytes(h) => \A i \in CallsOf(h, OpenCalls) : Mounted(h, i)

\* C5 amended: outside the test environment, every engine open / create call of
\* a handle made from bytes comes after the bytes were written into the virtual
\* filesystem under the handle's filename (in the test environment the mount is
\* skipped); the handle never changes its memory source.
C5_MountBeforeOpen ==
    /\ [](\A h \in Handles :
            (FromBytes(h) /\ ~testEnv) => \A i \in CallsOf(h, OpenCalls) : Mounted(h, i))
    /\ [][memorySource' = memorySource]_vars

C5_Witness ==
    \E h \in Handles :
        /\ FromBytes(h) /\ ~testEnv /\ _isOpen[h]
        /\ CallsOf(h, OpenCalls) # {}
        /\ \A i \in CallsOf(h, OpenCalls) : Mounted(h, i)

\* the mount of a handle made from bytes was attempted and failed
MountFailed(h) ==
    /\ FromBytes(h) /\ ~testEnv
    /\ module[h] = "real" /\ pc[h] \notin {"load", "mount"}
    /\ filename[h] \notin FSfiles

\* C6 as stated: a failed mount does not abort the open; the engine's open /
\* create is still attempted.
C6_Original ==
    \A h \in Handles :
        (MountFailed(h) /\ pc[h] = "idle") => CallsOf(h, OpenCalls) # {}

\* C6 amended: a failed mount aborts the open: initialize() rejects with the
\* mount error, the engine's open / create is not attempted, the handle is not
\* open and fromMemory hands no handle to the caller.
C6_MountFailureAborts ==
    \A h \in Handles :
        MountFailed(h) =>
            /\ pc[h] = "idle"
            /\ last[h] = Outcome("fromMemory", "MountError", <<>>)
            /\ CallsOf(h, OpenCalls) = {}
            /\ ~_isOpen[h]
            /\ ~returned[h]

C6_Witness ==
    \E h \in Handles :
        /\ MountFailed(h) /\ hasFS
        /\ trace[h] = <<Call("FS.writeFile", <<filename[h]>>)>>

\* C7: fromMemory with data that is null or not a byte buffer is rejected (the
\* caller gets no handle) and makes no engine open / create call.
C7_InvalidSourceRejected ==
    \A h \in Handles :
        memorySource[h] \in {"null", "string"} =>
            /\ CallsOf(h, OpenCalls) = {}
            /\ ~returned[h]

C10_RejectedDimension ==
    [][\A h \in Handles, name \in DimNames, size \in Sizes :
         ((Has(dimensions[h], name)
              \/ (size # null /\ size < 0 /\ size # NC_UNLIMITED))
             /\ last'[h].op = "createDimension"
             /\ createDimension(h, name, size))
            => /\ last'[h].res \in {"DuplicateName", "InvalidSize"}
               /\ Has(dimensions[h], name) => last'[h].res = "DuplicateName"
               /\ trace'[h] = <<>>
               /\ dimensions' = dimensions
               /\ mockFiles' = mockFiles]_vars

C10_Witness ==
    \E h \in Handles :
        /\ last[h] = Outcome("createDimension", "DuplicateName", <<>>)
        /\ trace[h] = <<>>
        /\ Len(dimensions[h]) = 2

\* C11: createDimension(name, null) and createDimension(name, NC_UNLIMITED) do
\* the same; when they succeed the engine was given size 0 and the cached
\* dimension is unlimited with the NC_UNLIMITED sentinel (not 0) as its size;
\* createDimension(name, n) with n >= 0 caches size n, not unlimited.
C11_UnlimitedDimension ==
    [][\A h \in Handles, name \in DimNames :
         /\ createDimension(h, name, null) <=> createDimension(h, name, NC_UNLIMITED)
         /\ \A size \in Sizes :
               (last'[h] = Outcome("createDimension", "ok", <<>>)
                   /\ createDimension(h, name, size))
                  => IF size \in {null, NC_UNLIMITED}
                     THEN /\ trace'[h] = <<Call("nc_def_dim", <<groupId[h], name, 0>>)>>
                          /\ Get(dimensions'[h], name) = Dimension(name, NC_UNLIMITED, TRUE)
                          /\ Get(dimensions'[h], name).size # 0
                     ELSE /\ size >= 0
                          /\ trace'[h] = <<Call("nc_def_dim", <<groupId[h], name, size>>)>>
                          /\ Get(dimensions'[h], name) = Dimension(name, size, FALSE)]_vars

C11_Witness ==
    \E h \in Handles :
        /\ last[h] = Outcome("createDimension", "ok", <<>>)
        /\ trace[h] = <<Call("nc_def_dim", <<groupId[h], "t", 0>>)>>
        /\ dimensions[h] = <<Dimension("x", MaxSize, FALSE),
                             Dimension("t", NC_UNLIMITED, TRUE)>>

\* the createVariable call names a dimension that is not in the cache
MissingDimension(h, dims) == \E i \in 1..Len(dims) : ~Has(dimensions[h], dims[i])

TypeAliases == {"f8", "f4", "i4", "i2", "i1", "S1",
                "double", "float", "int", "short", "byte", "char"}

\* C13: on an open handle, with every named dimension in the cache,
\* createVariable passes the datatype check for exactly the twelve type aliases
\* (and records the alias given as the variable's datatype); for any other
\* datatype it fails with the unsupported-datatype error before any engine call
\* and adds no variable entry.
C13_DatatypeEnumeration ==
    [][\A h \in Handles, datatype \in AllDatatypes, dims \in DimLists :
         (_isOpen[h] /\ ~MissingDimension(h, dims)
             /\ last'[h].op = "createVariable"
             /\ createVariable(h, "v", datatype, dims))
            => IF datatype \in TypeAliases
               THEN /\ last'[h].res \in {"ok", "EngineError"}
                    /\ Len(trace'[h]) = 1
                    /\ last'[h].res = "ok" =>
                          Get(variables'[h], "v").datatype = datatype
               ELSE /\ last'[h].res = "UnsupportedDatatype"
                    /\ trace'[h] = <<>>
                    /\ variables' = variables]_vars

IntegerTypes == {"i4", "i2", "i1", "S1", "int", "short", "byte", "char"}
FloatTypes   == {"f8", "double", "f4", "float"}
DataCalls    == {"nc_get_var_double", "nc_put_var_double"}

StoredData(h, mf, name) ==
    IF HasMockFile(h, mf) /\ Has(MockFile(h, mf).variables, name)
    THEN Get(MockFile(h, mf).variables, name).data
    ELSE <<>>

\* C15: on the engine of createMockModule, for f8 variables of an open handle:
\* a setValue that resolves makes the data written the data held for that
\* variable and leaves the data held for every other variable as it was, and a
\* getValue that resolves returns the data held for that variable when that has
\* the variable's size -- so getValue returns what was last written to the same
\* variable, whatever was written to other variables in between.
C15_WriteReadRoundTrip ==
    [][\A h \in Handles, name \in VarNames :
         (_isOpen[h] /\ module[h] = "mock" /\ Has(variables[h], name)
             /\ Get(variables[h], name).datatype = "f8")
            => /\ \A data \in DataInputs :
                     (last'[h] = Outcome("setValue", "ok", <<>>) /\ setValue(h, name, data))
                        => /\ StoredData(h, mockFiles', name) = data
                           /\ \A other \in VarNames \ {name} :
                                 StoredData(h, mockFiles', other)
                                    = StoredData(h, mockFiles, other)
               /\ (last'[h].op = "getValue" /\ last'[h].res = "ok" /\ getValue(h, name)
                     /\ Len(StoredData(h, mockFiles, name))
                           = totalSize(h, Get(variables[h], name).dimensions))
                    => last'[h].out = StoredData(h, mockFiles, name)]_vars

\* the product of the sizes of the dimensions named in names, looked up in the
\* cache dims: 1 for no names, 0 when one of them is unlimited
RECURSIVE SizeProduct(_, _)
SizeProduct(dims, names) ==
    IF names = <<>> THEN 1
    ELSE LET d == Get(dims, Head(names)) IN
         (IF d.isUnlimited THEN 0 ELSE d.size) * SizeProduct(dims, Tail(names))

\* the calls of a trace, whatever they returned
Asked(calls) == [i \in 1..Len(calls) |-> Call(calls[i].fn, calls[i].args)]

\* C16: getValue on a variable asks the engine for, and returns, as many values
\* as the product of the sizes of the variable's own dimensions (1 without
\* dimensions, 0 when one is unlimited): for a variable of the dataset over the
\* dataset's dimensions, and for a variable of a group over the group's
\* dimensions.
C16_ReadLength ==
    [][\A h \in Handles :
         /\ (last'[h].op = "getValue" /\ module[h] # "null" /\ getValue(h, "v"))
              => LET v == Get(variables[h], "v")
                     n == SizeProduct(dimensions[h], v.dimensions)
                 IN /\ Asked(trace'[h])
                          = <<Call("nc_get_var_double", <<v.ncid, v.varid, n>>)>>
                    /\ last'[h].res = "ok" => Len(last'[h].out) = n
         /\ \A g \in GroupNames :
              (last'[h].op = "group.getValue" /\ module[h] # "null"
                  /\ Group_getValue(h, g, "v"))
                 => LET this == Get(groups[h], g)
                        v == Get(this.variables, "v")
                        n == SizeProduct(this.dimensions, v.dimensions)
                    IN /\ Asked(trace'[h])
                          = <<Call("nc_get_var_double", <<v.ncid, v.varid, n>>)>>
                       /\ last'[h].res = "ok" => Len(last'[h].out) = n]_vars

\* what a handle shows of its dimensions and variables
DimEntries(h) ==
    {[name |-> d.name, size |-> d.size, isUnlimited |-> d.isUnlimited] :
        d \in {dimensions[h][i] : i \in 1..Len(dimensions[h])}}
VarEntries(h) ==
    {[name |-> v.name, datatype |-> v.datatype, dimensions |-> v.dimensions,
      attributes |-> v.attributes] :
        v \in {variables[h][i] : i \in 1..Len(variables[h])}}

\* C17: where the metadata is re-derived on reopen (the engine of
\* createMockModule): after the first handle has written the dataset and closed,
\* a second handle opened on the same path in mode 'r' has dimensions with the
\* same names, sizes and isUnlimited flags and variables with the same names,
\* datatypes, dimension lists and attributes as the first handle had.
C17_ReopenSameMetadata ==
    (/\ everClosed[Writer] /\ module[Writer] = "mock"
     /\ mode[Reader] = "r" /\ _isOpen[Reader] /\ module[Reader] = "mock"
     /\ filename[Reader] = filename[Writer])
       => /\ DimEntries(Reader) = DimEntries(Writer)
          /\ VarEntries(Reader) = VarEntries(Writer)

\* C18: on the engine of createMockModule, when a dataset exists at the path:
\* the open() of a handle in mode 'w-' fails and leaves the stored dataset as it
\* was, and the open() of a handle in mode 'w' that succeeds leaves an empty
\* dataset at the path.
C18_ExclusiveCreate ==
    [][(/\ pc[Reader] \in {"open", "catch"} /\ module[Reader] = "mock"
        /\ Has(mockFiles, filename[Reader])
        /\ openStep(Reader))
          => /\ mode[Reader] = "w-" =>
                   /\ ~_isOpen'[Reader]
                   /\ last'[Reader].res \notin {"ok", "pending"}
                   /\ mockFiles' = mockFiles
             /\ (mode[Reader] = "w" /\ last'[Reader].res = "ok") =>
                   Get(mockFiles', filename[Reader])
                      = [name |-> filename[Reader]] @@ EmptyMockFile]_vars

\* C19: NetCDF4.Dataset('', mode) fails: it never resolves and never hands the
\* caller a handle, open or not.
C19_EmptyFilenameRejected ==
    \A h \in Handles :
        (filename[h] = "" /\ last[h].op = "Dataset")
           => last[h].res # "ok" /\ ~returned[h]

\* C20: within one initialize() the engine's open / create is called at most
\* once, and when that call fails initialize() settles at once, rejected with
\* the engine's error, with no further attempt on this or a substitute engine.
C20_NoRetry ==
    /\ [](\A h \in Handles : Cardinality(CallsOf(h, OpenCalls)) <= 1)
    /\ [][\A h \in Handles :
            (openStep(h) /\ Len(trace'[h]) > Len(trace[h]) /\ ~_isOpen'[h])
               => /\ pc'[h] = "idle"
                  /\ last'[h].res = "EngineError"
                  /\ module'[h] = module[h]]_vars

\* the step is an operation of handle h whose engine call returned a status
\* other than 0: the last call of the trace, made in this step
EngineCallFailed(h) ==
    /\ pc[h] \in {"idle", "open", "catch"}
    /\ Len(trace'[h]) > 0
    /\ pc[h] # "idle" => Len(trace'[h]) > Len(trace[h])
    /\ trace'[h][Len(trace'[h])].result # NC_NOERR

\* C21: when an engine call (open, create, close, define dimension, define
\* variable, read, write) returns a status other than 0, the operation that made
\* it settles rejected, with the engine error carrying that status, and the
\* handle's _isOpen, ncid, groupId, dimensions and variables are as before the
\* call.
C21_EngineFailureLeavesState ==
    [][\A h \in Handles :
         EngineCallFailed(h)
            => /\ pc'[h] = "idle"
               /\ last'[h].res = "EngineError"
               /\ last'[h].status = trace'[h][Len(trace'[h])].result
               /\ _isOpen'[h] = _isOpen[h]
               /\ ncid'[h] = ncid[h]
               /\ groupId'[h] = groupId[h]
               /\ dimensions'[h] = dimensions[h]
               /\ variables'[h] = variables[h]]_vars

GroupOps == {"group.createDimension", "group.createVariable", "group.getValue"}

\* C22: every engine call a group of the dataset makes (define dimension,
\* define variable, read) is given the resource identifier the dataset gives its
\* own engine calls, this.groupId of the dataset -- whether createGroup was
\* called before or after the dataset was opened.
C22_GroupSharesIdentifier ==
    [][\A h \in Handles :
         (last'[h].op \in GroupOps /\ Len(trace'[h]) > 0)
            => \A i \in 1..Len(trace'[h]) : trace'[h][i].args[1] = groupId[h]]_vars

GetAttrOps == {"getncattr", "group.getncattr", "variable.getncattr"}

\* C23: getncattr on the dataset, on a group and on a variable is a pure
\* lookup: it does not throw, it returns undefined for a name that is not among
\* the scope's attributes, and it leaves the state as it was -- the ncattrs() of
\* the dataset, of every group and of every variable are the same after it.
C23_AttributeLookupPure ==
    [][\A h \in Handles :
         last'[h].op \in GetAttrOps
            => /\ last'[h].res = "ok"
               /\ \A name \in AttrNames :
                     /\ (getncattr(h, name) /\ ~Has(_attributes[h], name))
                           => last'[h].out = <<>>
                     /\ \A g \in Names(groups[h]) :
                           (Group_getncattr(h, g, name)
                               /\ ~Has(Get(groups[h], g)._attributes, name))
                              => last'[h].out = <<>>
               /\ ncattrs(_attributes'[h]) = ncattrs(_attributes[h])
               /\ \A g \in Names(groups[h]) :
                     ncattrs(Get(groups'[h], g)._attributes)
                        = ncattrs(Get(groups[h], g)._attributes)
               /\ UNCHANGED <<_attributes, groups, variables, dimensions, mockFiles,
                              _isOpen, ncid, groupId>>]_vars

\* what getncattr(name) would return on the dataset and on its group g
DatasetAttribute(h, mf, attrs, name) == attributeValue(h, mf, attrs[h], name)
GroupAttribute(h, mf, gs, g, name) ==
    attributeValue(h, mf, Get(gs[h], g)._attributes, name)

\* C30: attributes are scoped: a setncattr on a group leaves what getncattr
\* returns on the dataset and on every other group as it was, and a setncattr on
\* the dataset leaves what getncattr returns on every group as it was.
C30_AttributeScoping ==
    [][\A h \in Handles, name \in AttrNames :
         /\ \A g \in Names(groups[h]) :
               (last'[h].op = "group.setncattr"
                   /\ \E n \in AttrNames, value \in AttrValues :
                         Group_setncattr(h, g, n, value))
                  => /\ DatasetAttribute(h, mockFiles', _attributes', name)
                           = DatasetAttribute(h, mockFiles, _attributes, name)
                     /\ \A k \in Names(groups[h]) \ {g} :
                           GroupAttribute(h, mockFiles', groups', k, name)
                              = GroupAttribute(h, mockFiles, groups, k, name)
         /\ (last'[h].op = "setncattr"
               /\ \E n \in AttrNames, value \in AttrValues : setncattr(h, n, value))
              => \A g \in Names(groups[h]) :
                    GroupAttribute(h, mockFiles', groups', g, name)
                       = GroupAttribute(h, mockFiles, groups, g, name)]_vars

\* what the engine of handle o reads: the entry of o's file in the mock storage
StoredDataset(o, mf) == IF HasMockFile(o, mf) THEN <<MockFile(o, mf)>> ELSE <<>>

\* C24: while two handles are open on different filenames, a createDimension,
\* createVariable, setncattr or setValue on one of them leaves the other's
\* dimensions, variables, groups and attributes, what its getncattr returns and
\* the stored dataset its reads come from as they were.
C24_HandlesIndependent ==
    [][\A h \in Pair : \A o \in Pair \ {h} :
         (/\ _isOpen[h] /\ _isOpen[o] /\ filename[h] # filename[o]
          /\ last'[o] = last[o] /\ trace'[o] = trace[o]
          /\ CASE last'[h].op = "createDimension" ->
                    createDimension(h, "x", MaxSize)
               [] last'[h].op = "createVariable" ->
                    \E dims \in {<<>>, <<"x">>} : createVariable(h, "v", "f8", dims)
               [] last'[h].op = "setncattr" ->
                    \E name \in AttrNames : setncattr(h, name, "K")
               [] last'[h].op = "setValue" ->
                    \E data \in PairData : setValue(h, "v", data)
               [] OTHER -> FALSE)
            => /\ dimensions'[o] = dimensions[o]
               /\ variables'[o] = variables[o]
               /\ groups'[o] = groups[o]
               /\ _attributes'[o] = _attributes[o]
               /\ \A name \in AttrNames :
                     DatasetAttribute(o, mockFiles', _attributes', name)
                        = DatasetAttribute(o, mockFiles, _attributes, name)
               /\ StoredDataset(o, mockFiles') = StoredDataset(o, mockFiles)
               /\ _isOpen'[o] /\ ncid'[o] = ncid[o]]_vars

C24_Witness ==
    /\ \A h \in Pair : _isOpen[h] /\ module[h] = "mock" /\ Len(dimensions[h]) = 1
    /\ StoredData(1, mockFiles, "v") # <<>>
    /\ StoredData(2, mockFiles, "v") # <<>>
    /\ StoredData(1, mockFiles, "v") # StoredData(2, mockFiles, "v")
    /\ DatasetAttribute(1, mockFiles, _attributes, "units")
          # DatasetAttribute(2, mockFiles, _attributes, "units")
    /\ last[2] = Outcome("setValue", "ok", <<>>)

\* the create mode has the NC_NETCDF4 bit
HasNetcdf4Flag(cmode) == (cmode \div NC_NETCDF4) % 2 = 1

\* C25: for a handle in mode 'w' or 'w-', the mode given to the engine's create
\* call has the NC_NETCDF4 flag exactly when the handle's file_format is
\* 'NETCDF4' -- also when no format option was given, where file_format is
\* 'NETCDF4'.
C25_FormatFlagAgrees ==
    \A h \in Handles :
        \A i \in CallsOf(h, {"nc_create"}) :
            /\ mode[h] \in {"w", "w-"}
            /\ HasNetcdf4Flag(trace[h][i].args[2]) <=> file_format(h) = "NETCDF4"

\* the dimid the engine returned when dimension name of scope (the dataset, "",
\* or a group) was defined
EngineDimid(h, scope, name) ==
    LET i == CHOOSE i \in 1..Len(definedDims[h]) :
                 definedDims[h][i].scope = scope /\ definedDims[h][i].name = name
    IN definedDims[h][i].dimid

\* C26: the dimension identifiers createVariable gives the engine's
\* define-variable call are the identifiers the engine returned when the
\* variable's dimensions were defined, in the order of its dimension list: for a
\* variable of the dataset, and for a variable of a group.
C26_DimensionIdentifiers ==
    [][\A h \in Handles, dims \in {<<>>, <<"x">>} :
         /\ (last'[h].op = "createVariable" /\ Len(trace'[h]) = 1
               /\ createVariable(h, "v", "f8", dims))
              => trace'[h][1].args[4]
                    = [i \in 1..Len(dims) |-> EngineDimid(h, "", dims[i])]
         /\ \A g \in GroupNames :
               (last'[h].op = "group.createVariable" /\ Len(trace'[h]) = 1
                   /\ Group_createVariable(h, g, "v", "f8", dims))
                  => trace'[h][1].args[4]
                        = [i \in 1..Len(dims) |-> EngineDimid(h, g, dims[i])]]_vars

\* C27: a variable entry is never removed or replaced: a name in variables stays
\* in variables, with the datatype and the dimension list it had and with every
\* attribute it had -- also across a createVariable call with that name.
C27_EntriesNeverReplaced ==
    [][\A h \in Handles : \A name \in Names(variables[h]) :
         /\ Has(variables'[h], name)
         /\ LET old == Get(variables[h], name)
                new == Get(variables'[h], name)
            IN /\ new.datatype = old.datatype
               /\ new.dimensions = old.dimensions
               /\ \A a \in Names(old.attributes) :
                     /\ Has(new.attributes, a)
                     /\ last'[h].op # "variable.setncattr" =>
                           Get(new.attributes, a) = Get(old.attributes, a)]_vars

\* C28: when initialize() or __aenter__() is called on a handle while a call of
\* initialize() is in flight, the engine opens or creates the file at most once
\* for the handle, which then holds the one resource identifier handed out.
C28_OverlappingInitialize ==
    \A h \in Handles :
        (\E k \in 1..Len(overlapping[h]) : overlapping[h][k].op \in InitOps)
            => Cardinality({i \in CallsOf(h, OpenCalls) :
                               trace[h][i].result = NC_NOERR}) <= 1

\* C29: of the createDimension calls with one name that overlap on a handle, at
\* most one succeeds, and the engine receives at most one define call for the name.
C29_OverlappingCreateDimension ==
    \A h \in Handles : \A name \in DimNames :
        LET made == {k \in 1..Len(overlapping[h]) :
                        /\ overlapping[h][k].op = "createDimension"
                        /\ overlapping[h][k].name = name}
        IN /\ Cardinality({k \in made : overlapping[h][k].res = "ok"}) <= 1
           /\ Cardinality({i \in CallsOf(h, {"nc_def_dim"}) :
                               trace[h][i].args[2] = name}) <= 1

====
